---- MODULE Spec2Model ----
(***************************************************************************)
(* Flavor data-access layer of nova/objects/flavor.py: the primary (API)   *)
(* store, the legacy (nova) store, the dual-source list merge and the      *)
(* read-through lookup by flavorid with migrate-on-read.                   *)
(*                                                                         *)
(* Python values are modelled as follows.  An optional value (None or x)   *)
(* is a sequence of length 0 or 1.  A dict with a fixed set of keys is a   *)
(* record; a dict with a varying set of keys is a function.  A list is a   *)
(* sequence.  A table is the set of its rows; a row's "deleted" column is  *)
(* 0 while the row is live and the row's id once it is soft-deleted.       *)
(***************************************************************************)
EXTENDS Integers, Sequences, FiniteSets, TLC

\* ---------------------------------------------------------------- bounds
MaxRows == 2
MaxListRows == 2
MaxLimit == 2
MaxGrants == 3
MaxSpecRows == 2
MaxRetries == 2

\* ------------------------------------------------------------ value sets
None == <<>>
Some(x) == <<x>>

FlavorIds == {"f1", "f2", "f3"}
Names == {"a1", "a2", "a3"}
Projects == {"p1", "p2"}

\* Order of the strings that occur as sort keys (Python compares str
\* lexicographically; these are the ranks of the strings used here).
StrOrd == [s \in FlavorIds \cup Names |->
             CASE s = "a1" -> 1 [] s = "a2" -> 2 [] s = "a3" -> 3
               [] s = "f1" -> 4 [] s = "f2" -> 5 [] s = "f3" -> 6]

\* Column values a flavor can be written with, apart from flavorid: the
\* fixture of test_flavor_get_all (memory_mb rising, root_gb falling,
\* disabled and is_public varied), three of its rows.
FlavorValues ==
  { [name |-> "a1", memory_mb |-> 100, root_gb |-> 600, disabled |-> TRUE,
     is_public |-> TRUE, vcpu_weight |-> Some(1)],
    [name |-> "a2", memory_mb |-> 400, root_gb |-> 300, disabled |-> FALSE,
     is_public |-> FALSE, vcpu_weight |-> None],
    [name |-> "a3", memory_mb |-> 400, root_gb |-> 400, disabled |-> FALSE,
     is_public |-> TRUE, vcpu_weight |-> Some(1)] }

\* A row of the flavors table.
FlavorRow(id, flavorid, v, deleted) ==
  [id |-> id, flavorid |-> flavorid, name |-> v.name,
   memory_mb |-> v.memory_mb, root_gb |-> v.root_gb,
   disabled |-> v.disabled, is_public |-> v.is_public,
   vcpu_weight |-> v.vcpu_weight, deleted |-> deleted]

\* Request contexts: get_admin_context() and RequestContext('user', p).
AdminCtxt == [is_admin |-> TRUE, project_id |-> None, read_deleted |-> "no"]
UserCtxt(p) == [is_admin |-> FALSE, project_id |-> Some(p), read_deleted |-> "no"]
Contexts == {AdminCtxt} \cup {UserCtxt(p) : p \in Projects}

VARIABLES
  api_flavors,    \* primary store, table flavors
  api_projects,   \* primary store, table flavor_projects
  api_specs,      \* primary store, table flavor_extra_specs
  nova_flavors,   \* legacy store, table instance_types
  nova_projects,  \* legacy store, table instance_type_projects
  nova_specs,     \* legacy store, table instance_type_extra_specs
  ret,            \* the last call: its operation, arguments and outcome
  pager,          \* a client paging through FlavorList.get_all
  calls           \* the calls of concurrent callers, each at its step

vars == <<api_flavors, api_projects, api_specs,
          nova_flavors, nova_projects, nova_specs, ret, pager, calls>>
stores == <<api_flavors, api_projects, api_specs,
            nova_flavors, nova_projects, nova_specs>>

\* ------------------------------------------------- the persistence layer

\* db_api.model_query(context, model, read_deleted=...): "no" hides the
\* soft-deleted rows, "yes" shows all rows, "only" shows the soft-deleted
\* ones; unset, the context's read_deleted decides.
ModelQuery_YesOnlyDeleted(rows, context, read_deleted) ==
  LET rd == IF read_deleted = None THEN context.read_deleted
            ELSE read_deleted[1]
  IN CASE rd = "no" -> {r \in rows : r.deleted = 0}
       [] rd = "all" -> rows
       [] OTHER -> {r \in rows : r.deleted # 0}

ModelQuery(rows, context, read_deleted) ==
  LET rd == IF read_deleted = None THEN context.read_deleted
            ELSE read_deleted[1]
  IN CASE rd = "no" -> {r \in rows : r.deleted = 0}
       [] rd = "only" -> {r \in rows : r.deleted # 0}
       [] OTHER -> rows

\* Flavors.projects.any(project_id=...): the relationship joins the live
\* flavor_projects rows of the flavor.
ProjectsAny_AnyProject(projects, row, project_id) ==
  /\ project_id # None
  /\ \E a \in projects : a.flavor_id = row.id /\ a.deleted = 0

ProjectsAny(projects, row, project_id) ==
  /\ project_id # None
  /\ \E a \in projects : /\ a.flavor_id = row.id
                         /\ a.deleted = 0
                         /\ a.project_id = project_id[1]

\* The next value of a table's autoincrement id (rows are never removed).
NextId_Reused(rows) == Cardinality({r \in rows : r.deleted = 0}) + 1

NextId(rows) == IF rows = {} THEN 1
                ELSE 1 + CHOOSE m \in {r.id : r \in rows} :
                             \A r \in rows : r.id <= m

\* The live extra specs joined to a flavor row, as a dict.
ExtraSpecsOf(specs, row) ==
  LET live == {e \in specs : e.flavor_id = row.id /\ e.deleted = 0}
  IN [k \in {e.key : e \in live} |->
        (CHOOSE e \in live : e.key = k).value]

\* db_api._dict_with_extra_specs(row): the row's columns and its extra specs.
DictWithExtraSpecs(specs, row) ==
  [id |-> row.id, flavorid |-> row.flavorid, name |-> row.name,
   memory_mb |-> row.memory_mb, root_gb |-> row.root_gb,
   disabled |-> row.disabled, is_public |-> row.is_public,
   vcpu_weight |-> row.vcpu_weight, deleted |-> row.deleted,
   extra_specs |-> ExtraSpecsOf(specs, row)]

\* The value a record is ordered by under sort_key.
SortVal(d, sort_key) ==
  CASE sort_key = "flavorid" -> StrOrd[d.flavorid]
    [] sort_key = "name" -> StrOrd[d.name]
    [] sort_key = "memory_mb" -> d.memory_mb
    [] sort_key = "root_gb" -> d.root_gb
    [] OTHER -> d.id

\* ORDER BY sort_key <dir>, id <dir>: r comes before s.
RowBefore(r, s, sort_key, dir) ==
  IF dir = "asc"
  THEN \/ SortVal(r, sort_key) < SortVal(s, sort_key)
       \/ SortVal(r, sort_key) = SortVal(s, sort_key) /\ r.id < s.id
  ELSE \/ SortVal(r, sort_key) > SortVal(s, sort_key)
       \/ SortVal(r, sort_key) = SortVal(s, sort_key) /\ r.id > s.id

RECURSIVE OrderBy(_, _, _)
OrderBy(rows, sort_key, dir) ==
  IF rows = {} THEN <<>>
  ELSE LET first == CHOOSE r \in rows :
                      \A s \in rows \ {r} : RowBefore(r, s, sort_key, dir)
       IN <<first>> \o OrderBy(rows \ {first}, sort_key, dir)

\* list[:n] with n None or a natural number.
Slice(list, n) ==
  IF n = None \/ n[1] >= Len(list) THEN list ELSE SubSeq(list, 1, n[1])

\* sqlalchemyutils.paginate_query(query, model, limit, [sort_key, 'id'],
\* marker=marker_row, sort_dir=sort_dir): the rows after the marker row in
\* the order (sort_key, id), at most limit of them.
PaginateQuery(rows, limit, sort_key, marker_row, dir) ==
  LET after == IF marker_row = None THEN rows
               ELSE {r \in rows : RowBefore(marker_row[1], r, sort_key, dir)}
  IN Slice(OrderBy(after, sort_key, dir), limit)

\* ------------------------------------------------ nova/objects/flavor.py

FlavorGetQueryDb(flavors, projects, context, read_deleted) ==
  LET query == ModelQuery(flavors, context, read_deleted)
  IN IF ~context.is_admin
     THEN {r \in query : r.is_public \/ ProjectsAny(projects, r, context.project_id)}
     ELSE query

\* sorted(dictlist, key=itemgetter(key), reverse=...): a stable sort; with
\* reverse the equal elements keep their order too.
RECURSIVE Sorted(_, _, _)
Sorted(list, key, reverse) ==
  IF list = <<>> THEN <<>>
  ELSE LET n == Len(list)
           x == list[n]
           rest == Sorted(SubSeq(list, 1, n - 1), key, reverse)
           \* x goes behind every element that does not sort after it
           keep == {i \in 1..Len(rest) :
                      IF reverse THEN SortVal(rest[i], key) >= SortVal(x, key)
                      ELSE SortVal(rest[i], key) <= SortVal(x, key)}
           k == Cardinality(keep)
       IN SubSeq(rest, 1, k) \o <<x>> \o SubSeq(rest, k + 1, Len(rest))

\* sort_dir is 'asc' compares object identity: it holds when the caller's
\* string is the very object of the literal, and that is not decided by
\* the string's value.
SortFlavorList(dictlist, key, sort_dir) ==
  LET asc == (sort_dir.str = "asc" /\ sort_dir.is_literal)
  IN Sorted(dictlist, key, ~asc)

FlavorListByMarker(flavorlist, marker) ==
  IF marker = None THEN [exc |-> None, result |-> flavorlist]
  ELSE LET hits == {i \in 1..Len(flavorlist) :
                      flavorlist[i].flavorid = marker[1]}
       IN IF hits = {} THEN [exc |-> Some("MarkerNotFound"), result |-> <<>>]
          ELSE LET mark == (CHOOSE i \in hits : \A j \in hits : i <= j) + 1
               IN [exc |-> None,
                   result |-> SubSeq(flavorlist, mark, Len(flavorlist))]

LimitFlavorList(flavorlist, limit) == Slice(flavorlist, limit)

\* The union without the test on flavor_list1_ids.
FlavorUnionList_NoDedup(flavor_list1, flavor_list2) ==
  flavor_list1 \o flavor_list2

FlavorUnionList(flavor_list1, flavor_list2) ==
  LET flavor_list1_ids == {flavor_list1[i].flavorid : i \in 1..Len(flavor_list1)}
  IN flavor_list1 \o SelectSeq(flavor_list2,
                               LAMBDA x : x.flavorid \notin flavor_list1_ids)

\* The filter clauses of _flavor_get_all_db on a query.  A filter key that
\* is absent from the dict is None here; is_public is present with the
\* value None as Some(None).
FilterQuery(query, projects, context, filters) ==
  {r \in query :
     /\ filters.min_memory_mb # None => r.memory_mb >= filters.min_memory_mb[1]
     /\ filters.min_root_gb # None => r.root_gb >= filters.min_root_gb[1]
     /\ filters.disabled # None => r.disabled = filters.disabled[1]
     /\ (filters.is_public # None /\ filters.is_public[1] # None) =>
          LET want == filters.is_public[1][1]
          IN \/ r.is_public = want
             \/ /\ want
                /\ context.project_id # None
                /\ ProjectsAny(projects, r, context.project_id)}

\* db.flavor_get_all of the legacy store: the same filters, order and limit
\* as the primary store's query, on the legacy tables.
NovaFlavorGetAll(context, inactive, filters, sort_key, dir, limit, marker) ==
  LET read_deleted == Some(IF inactive THEN "yes" ELSE "no")
      visible == FlavorGetQueryDb(nova_flavors, nova_projects, context, read_deleted)
      query == FilterQuery(visible, nova_projects, context, filters)
      hits == {r \in visible : marker # None /\ r.flavorid = marker[1]}
      marker_row == IF hits = {} THEN None
                    ELSE Some(CHOOSE r \in hits : \A h \in hits : r.id <= h.id)
      rows == PaginateQuery(query, limit, sort_key, marker_row, dir)
  IN [i \in 1..Len(rows) |-> DictWithExtraSpecs(nova_specs, rows[i])]

\* _flavor_get_all_db.  The outcome is the exception raised, if any, and the
\* list returned.
FlavorGetAllDb(context, inactive, filters, sort_key, sort_dir, limit, marker) ==
  LET read_deleted == Some(IF inactive THEN "yes" ELSE "no")
      visible == FlavorGetQueryDb(api_flavors, api_projects, context, read_deleted)
      query == FilterQuery(visible, api_projects, context, filters)
      hits == {r \in visible : marker # None /\ r.flavorid = marker[1]}
      marker_row == IF hits = {} THEN None
                    ELSE Some(CHOOSE r \in hits : \A h \in hits : r.id <= h.id)
      union_marker == IF marker # None /\ marker_row = None THEN 1 ELSE 0
      flavors == PaginateQuery(query, limit, sort_key, marker_row, sort_dir.str)
      nova_list == NovaFlavorGetAll(context, inactive, filters, sort_key,
                                    sort_dir.str, limit, None)
      api_list == [i \in 1..Len(flavors) |-> DictWithExtraSpecs(api_specs, flavors[i])]
      flavor_union == SortFlavorList(FlavorUnionList(api_list, nova_list),
                                     sort_key, sort_dir)
      marked == IF union_marker = 1 THEN FlavorListByMarker(flavor_union, marker)
                ELSE [exc |-> None, result |-> flavor_union]
  IN IF marked.exc # None THEN marked
     ELSE [exc |-> None, result |-> LimitFlavorList(marked.result, limit)]

\* A value bound to flavor_projects.project_id: a str, or something else
\* (an access row handed over in place of its project_id).
PyStr(p) == [kind |-> "str", s |-> p]
PyRow(access_row) == [kind |-> "row", s |-> access_row.project_id]

\* What a driver that renders an unsupported parameter with str() stores
\* for an access row: the object's repr, one per object, no project id.
ObjRepr(x) == IF x.s = "p1" THEN "<FlavorProjects object 1>"
              ELSE "<FlavorProjects object 2>"

\* flavors_ref.save(session) under uniq_flavors0flavorid0deleted and
\* uniq_flavors0name0deleted: the exceptions _flavor_create_db raises for
\* the DBDuplicateEntry, none if the row is saved.  e.columns names the
\* constraint the database reports, one of those violated.
DuplicateEntry_NoConstraint(rows, values) == {}

DuplicateEntry_FlavoridOnly(rows, values) ==
  {x \in {"FlavorIdExists"} :
     \E r \in rows : r.flavorid = values.flavorid /\ r.deleted = values.deleted}

DuplicateEntry_NameOnly(rows, values) ==
  {x \in {"FlavorExists"} :
     \E r \in rows : r.name = values.name /\ r.deleted = values.deleted}

DuplicateEntry(rows, values) ==
  LET dup_flavorid == \E r \in rows : /\ r.flavorid = values.flavorid
                                      /\ r.deleted = values.deleted
      dup_name == \E r \in rows : /\ r.name = values.name
                                  /\ r.deleted = values.deleted
  IN {x \in {"FlavorIdExists", "FlavorExists"} :
        \/ x = "FlavorIdExists" /\ dup_flavorid
        \/ x = "FlavorExists" /\ dup_name}

\* The outcomes of _flavor_create_db(context, values, projects): the
\* exception raised, if any, the tables after the transaction and the dict
\* returned.  values carries every column but id, and extra_specs.
FlavorCreateDb(context, values, projects) ==
  LET id == NextId(api_flavors)
      flavors_ref == [id |-> id, flavorid |-> values.flavorid,
                      name |-> values.name, memory_mb |-> values.memory_mb,
                      root_gb |-> values.root_gb, disabled |-> values.disabled,
                      is_public |-> values.is_public,
                      vcpu_weight |-> values.vcpu_weight,
                      deleted |-> values.deleted]
      keys == DOMAIN values.extra_specs
      first_spec == NextId(api_specs)
      key_seq == CHOOSE q \in [1..Cardinality(keys) -> keys] :
                   \A i, j \in 1..Cardinality(keys) : i # j => q[i] # q[j]
      specs_refs == {[id |-> first_spec + i - 1, flavor_id |-> id,
                      key |-> key_seq[i],
                      value |-> values.extra_specs[key_seq[i]],
                      deleted |-> 0] : i \in 1..Cardinality(keys)}
      dup == DuplicateEntry(api_flavors, values)
      unchanged(e) == [exc |-> Some(e), flavors |-> api_flavors,
                       projects |-> api_projects, specs |-> api_specs,
                       result |-> None]
      first_access == NextId(api_projects)
      proj_seq == CHOOSE q \in [1..Cardinality(projects) -> projects] :
                    \A i, j \in 1..Cardinality(projects) : i # j => q[i] # q[j]
      access_refs == {[id |-> first_access + i - 1, flavor_id |-> id,
                       project_id |-> IF proj_seq[i].kind = "str"
                                      THEN proj_seq[i].s
                                      ELSE ObjRepr(proj_seq[i]),
                       deleted |-> 0] : i \in 1..Cardinality(projects)}
      saved == [exc |-> None, flavors |-> api_flavors \cup {flavors_ref},
                projects |-> api_projects \cup access_refs,
                specs |-> api_specs \cup specs_refs,
                result |-> Some(DictWithExtraSpecs(specs_refs, flavors_ref))]
  IN IF dup # {}
     THEN {unchanged(e) : e \in dup}
     ELSE IF \E x \in projects : x.kind # "str"
          THEN \* the driver rejects the parameter and the transaction is
               \* rolled back, or it stores the parameter's str()
               {unchanged("DBError"), saved}
          ELSE {saved}

\* _flavor_get_by_flavor_id_db.
FlavorGetByFlavorIdDb_ById(context, flavor_id, read_deleted) ==
  LET rows == {r \in FlavorGetQueryDb(api_flavors, api_projects, context,
                                      read_deleted) : r.flavorid = flavor_id}
  IN IF rows = {} THEN [exc |-> Some("FlavorNotFound"), result |-> None]
     ELSE [exc |-> None,
           result |-> Some(DictWithExtraSpecs(api_specs,
                        CHOOSE r \in rows : \A o \in rows : r.id <= o.id))]

FlavorGetByFlavorIdDb(context, flavor_id, read_deleted) ==
  LET rows == {r \in FlavorGetQueryDb(api_flavors, api_projects, context,
                                      read_deleted) : r.flavorid = flavor_id}
  IN IF rows = {} THEN [exc |-> Some("FlavorNotFound"), result |-> None]
     ELSE [exc |-> None,
           result |-> Some(DictWithExtraSpecs(api_specs,
                        CHOOSE r \in rows : \A o \in rows \ {r} :
                          \/ r.deleted < o.deleted
                          \/ r.deleted = o.deleted /\ r.id < o.id))]

\* db.flavor_get_by_flavor_id of the legacy store.
NovaFlavorGetByFlavorId(context, flavor_id, read_deleted) ==
  LET rows == {r \in FlavorGetQueryDb(nova_flavors, nova_projects, context,
                                      read_deleted) : r.flavorid = flavor_id}
  IN IF rows = {} THEN [exc |-> Some("FlavorNotFound"), result |-> None]
     ELSE [exc |-> None,
           result |-> Some(DictWithExtraSpecs(nova_specs,
                        CHOOSE r \in rows : \A o \in rows \ {r} :
                          \/ r.deleted < o.deleted
                          \/ r.deleted = o.deleted /\ r.id < o.id))]

\* db.flavor_access_get_by_flavor_id of the legacy store: the live access
\* rows of the live flavor with that flavorid.
NovaFlavorAccessGetByFlavorId(context, flavor_id) ==
  {a \in nova_projects :
     /\ a.deleted = 0
     /\ \E r \in nova_flavors : /\ r.deleted = 0
                                /\ r.flavorid = flavor_id
                                /\ r.id = a.flavor_id}

\* _migrate_flavor_to_api: the outcomes of the create it ends with.
MigrateFlavorToApi(context, values, flavor_id) ==
  LET tvalues == [flavorid |-> values.flavorid, name |-> values.name,
                  memory_mb |-> values.memory_mb, root_gb |-> values.root_gb,
                  disabled |-> values.disabled, is_public |-> values.is_public,
                  vcpu_weight |-> values.vcpu_weight,
                  deleted |-> values.deleted,
                  extra_specs |-> values.extra_specs]
      access == NovaFlavorAccessGetByFlavorId(context, flavor_id)
  IN FlavorCreateDb(context, tvalues, {PyRow(a) : a \in access})

\* Flavor._from_db_object(..., expected_attrs=['extra_specs']): the fields
\* of the Flavor object; an integer field that is None becomes 0.
FromDbObject(db_flavor) ==
  [id |-> db_flavor.id, name |-> db_flavor.name,
   memory_mb |-> db_flavor.memory_mb, root_gb |-> db_flavor.root_gb,
   flavorid |-> db_flavor.flavorid,
   vcpu_weight |-> IF db_flavor.vcpu_weight = None THEN 0
                   ELSE db_flavor.vcpu_weight[1],
   disabled |-> db_flavor.disabled, is_public |-> db_flavor.is_public,
   extra_specs |-> db_flavor.extra_specs]

\* The outcomes of Flavor.get_by_flavor_id(context, flavor_id, read_deleted).
GetByFlavorIdOutcomes(context, flavor_id, read_deleted) ==
  LET here == [flavors |-> api_flavors, projects |-> api_projects,
               specs |-> api_specs]
      found == FlavorGetByFlavorIdDb(context, flavor_id, read_deleted)
      legacy == NovaFlavorGetByFlavorId(context, flavor_id, read_deleted)
  IN IF found.exc = None
     THEN {[exc |-> None, result |-> Some(FromDbObject(found.result[1]))] @@ here}
     ELSE IF legacy.exc # None
          THEN {[exc |-> legacy.exc, result |-> None] @@ here}
          ELSE {IF m.exc # None
                THEN [exc |-> m.exc, result |-> None, flavors |-> m.flavors,
                      projects |-> m.projects, specs |-> m.specs]
                ELSE [exc |-> None,
                      result |-> Some(FromDbObject(legacy.result[1])),
                      flavors |-> m.flavors, projects |-> m.projects,
                      specs |-> m.specs] :
                m \in MigrateFlavorToApi(context, legacy.result[1], flavor_id)}

\* ------------------------------------------------------------ operations

NoCall == [op |-> "none"]
NoPager == [pc |-> "idle"]

\* The concurrent callers, none of them in a call.
Callers == {"c1", "c2"}
NoCalls == [c \in Callers |-> [pc |-> "idle"]]

\* Arguments of list calls.
Limits == {None} \cup {Some(n) : n \in 1..MaxLimit}
Markers == {None} \cup {Some(f) : f \in FlavorIds}
SortKeys == {"flavorid", "name", "memory_mb"}
SortDirs == {[str |-> "asc", is_literal |-> TRUE],
             [str |-> "asc", is_literal |-> FALSE],
             [str |-> "desc", is_literal |-> FALSE]}
NoFilters == [min_memory_mb |-> None, min_root_gb |-> None,
              disabled |-> None, is_public |-> None]
AllFilters == [min_memory_mb : {None, Some(350)},
               min_root_gb : {None, Some(350)},
               disabled : {None, Some(TRUE), Some(FALSE)},
               is_public : {None, Some(None), Some(Some(TRUE)), Some(Some(FALSE))}]
SomeFilters == {NoFilters, [NoFilters EXCEPT !.min_memory_mb = Some(350)]}

\* A call of _flavor_get_all_db(context, inactive=False, ...) by the caller,
\* who makes one call at a time.
FlavorGetAll(context, filters, sort_key, sort_dir, limit, marker) ==
  LET out == FlavorGetAllDb(context, FALSE, filters, sort_key, sort_dir,
                            limit, marker)
  IN /\ ret = NoCall /\ pager = NoPager
     /\ ret' = [op |-> "get_all", context |-> context, filters |-> filters,
                sort_key |-> sort_key, sort_dir |-> sort_dir,
                limit |-> limit, marker |-> marker,
                exc |-> out.exc, result |-> out.result]
     /\ UNCHANGED <<stores, pager, calls>>

\* The caller takes the outcome of its call.
Return ==
  /\ ret # NoCall
  /\ ret' = NoCall
  /\ UNCHANGED <<stores, pager, calls>>

\* Arguments of creates.
ExtraSpecSets == {<<>>, [k \in {"k1"} |-> "v1"]}
GrantSets == {{}, {"p1"}}
ProjectLists == {<<>>, <<"p1">>, <<"p1", "p2", "p2">>}

\* set(projects).
SetOf_DropLast(projects) == {projects[i] : i \in 1..(Len(projects) - 1)}

SetOf(projects) == {projects[i] : i \in 1..Len(projects)}
CreateValues(flavorid, v, extra_specs) ==
  [flavorid |-> flavorid, name |-> v.name, memory_mb |-> v.memory_mb,
   root_gb |-> v.root_gb, disabled |-> v.disabled, is_public |-> v.is_public,
   vcpu_weight |-> v.vcpu_weight, deleted |-> 0, extra_specs |-> extra_specs]

Rows == Cardinality(api_flavors) + Cardinality(nova_flavors)

\* A call of _flavor_create_db(context, values, projects).
FlavorCreate(flavorid, v, extra_specs, projects) ==
  /\ ret = NoCall /\ pager = NoPager
  /\ Rows < MaxRows
  /\ \E out \in FlavorCreateDb(AdminCtxt, CreateValues(flavorid, v, extra_specs),
                               {PyStr(p) : p \in SetOf(projects)}) :
       /\ api_flavors' = out.flavors
       /\ api_projects' = out.projects
       /\ api_specs' = out.specs
       /\ ret' = [op |-> "create", flavorid |-> flavorid,
                  values |-> CreateValues(flavorid, v, extra_specs),
                  projects |-> projects, exc |-> out.exc,
                  result |-> out.result]
  /\ UNCHANGED <<nova_flavors, nova_projects, nova_specs, pager, calls>>

\* The code outside this layer writes a flavor to the legacy store: a live
\* row with its extra specs and access rows, flavorid and name unique among
\* the live rows there.
NovaFlavorCreate(flavorid, v, extra_specs, grants) ==
  LET id == NextId(nova_flavors)
  IN /\ ret = NoCall /\ pager = NoPager
     /\ Rows < MaxRows
     /\ \A r \in nova_flavors :
          r.deleted = 0 => r.flavorid # flavorid /\ r.name # v.name
     /\ nova_flavors' = nova_flavors \cup {FlavorRow(id, flavorid, v, 0)}
     /\ nova_specs' = nova_specs \cup
          {[id |-> NextId(nova_specs), flavor_id |-> id, key |-> k,
            value |-> extra_specs[k], deleted |-> 0] : k \in DOMAIN extra_specs}
     /\ nova_projects' = nova_projects \cup
          {[id |-> NextId(nova_projects), flavor_id |-> id, project_id |-> p,
            deleted |-> 0] : p \in grants}
     /\ UNCHANGED <<api_flavors, api_projects, api_specs, ret, pager, calls>>

\* A call of Flavor.get_by_flavor_id(context, flavor_id).
GetByFlavorId(context, flavor_id) ==
  /\ ret = NoCall /\ pager = NoPager
  /\ \E out \in GetByFlavorIdOutcomes(context, flavor_id, None) :
       /\ api_flavors' = out.flavors
       /\ api_projects' = out.projects
       /\ api_specs' = out.specs
       /\ ret' = [op |-> "get_by_flavor_id", context |-> context,
                  flavor_id |-> flavor_id, exc |-> out.exc,
                  result |-> out.result]
  /\ UNCHANGED <<nova_flavors, nova_projects, nova_specs, pager, calls>>

\* A client pages through the list: it starts without marker ...
PagerStart(filters, sort_key, sort_dir, limit) ==
  /\ ret = NoCall /\ pager = NoPager
  /\ pager' = [pc |-> "paging", filters |-> filters, sort_key |-> sort_key,
               sort_dir |-> sort_dir, limit |-> limit, marker |-> None,
               seen |-> <<>>]
  /\ UNCHANGED <<stores, ret, calls>>

\* ... and asks for the page after the last record it got, until a page
\* comes back empty.  It gives up once it has seen more records than the
\* stores hold.
PagerNext ==
  LET out == FlavorGetAllDb(AdminCtxt, FALSE, pager.filters, pager.sort_key,
                            pager.sort_dir, Some(pager.limit), pager.marker)
      page == out.result
  IN /\ pager.pc = "paging"
     /\ pager' =
          IF out.exc # None THEN [pager EXCEPT !.pc = "failed"]
          ELSE IF page = <<>> THEN [pager EXCEPT !.pc = "done"]
          ELSE IF Len(pager.seen) > Rows THEN [pager EXCEPT !.pc = "overrun"]
          ELSE [pager EXCEPT !.seen = pager.seen \o page,
                             !.marker = Some(page[Len(page)].flavorid)]
     /\ UNCHANGED <<stores, ret, calls>>

\* ------------------------------------------- the stores a list call meets

\* The flavors tables with k live rows: flavorid and name are unique among
\* the live rows of one store.
LiveTables(k) ==
  { {FlavorRow(i, s[i][1], s[i][2], 0) : i \in 1..k} :
    s \in {t \in [1..k -> FlavorIds \X FlavorValues] :
             \A i, j \in 1..k :
               i # j => /\ t[i][1] # t[j][1]
                        /\ t[i][2].name # t[j][2].name} }

\* Both stores hold live flavors, at most MaxListRows together.
InitList ==
  /\ \E k \in 0..MaxListRows, l \in 0..MaxListRows :
       /\ k + l <= MaxListRows
       /\ api_flavors \in LiveTables(k)
       /\ nova_flavors \in LiveTables(l)
  /\ api_projects = {} /\ api_specs = {}
  /\ nova_projects = {} /\ nova_specs = {}
  /\ ret = NoCall
  /\ pager = NoPager
  /\ calls = NoCalls

ListSorted ==
  \E filters \in SomeFilters, sort_key \in SortKeys, sort_dir \in SortDirs,
     limit \in Limits, marker \in Markers :
       FlavorGetAll(AdminCtxt, filters, sort_key, sort_dir, limit, marker)

ListFiltered ==
  \E filters \in AllFilters :
       FlavorGetAll(AdminCtxt, filters, "flavorid",
                    [str |-> "asc", is_literal |-> TRUE], None, None)

NextList == ListSorted \/ ListFiltered

SpecList == InitList /\ [][NextList]_vars

NextPage ==
  \/ \E filters \in SomeFilters, sort_key \in SortKeys, sort_dir \in SortDirs,
        limit \in 1..MaxLimit :
          PagerStart(filters, sort_key, sort_dir, limit)
  \/ PagerNext

SpecPage == InitList /\ [][NextPage]_vars

\* --------------------------------------------------- the stores from empty

Init ==
  /\ api_flavors = {} /\ api_projects = {} /\ api_specs = {}
  /\ nova_flavors = {} /\ nova_projects = {} /\ nova_specs = {}
  /\ ret = NoCall
  /\ pager = NoPager
  /\ calls = NoCalls

Next ==
  \/ \E flavorid \in FlavorIds, v \in FlavorValues,
        extra_specs \in ExtraSpecSets :
          \/ \E projects \in ProjectLists :
               FlavorCreate(flavorid, v, extra_specs, projects)
          \/ \E grants \in GrantSets :
               NovaFlavorCreate(flavorid, v, extra_specs, grants)
  \/ \E context \in Contexts, flavor_id \in FlavorIds :
          GetByFlavorId(context, flavor_id)
  \/ Return

Spec == Init /\ [][Next]_vars

\* ------------------------------------------------- get by id and by name

\* _flavor_get_by_name_db.
FlavorGetByNameDb(context, name) ==
  LET rows == {r \in FlavorGetQueryDb(api_flavors, api_projects, context,
                                      None) : r.name = name}
  IN IF rows = {} THEN [exc |-> Some("FlavorNotFoundByName"), result |-> None]
     ELSE [exc |-> None,
           result |-> Some(DictWithExtraSpecs(api_specs,
                                              CHOOSE r \in rows : TRUE))]

\* db.flavor_get_by_name of the legacy store.
NovaFlavorGetByName(context, name) ==
  LET rows == {r \in FlavorGetQueryDb(nova_flavors, nova_projects, context,
                                      None) : r.name = name}
  IN IF rows = {} THEN [exc |-> Some("FlavorNotFoundByName"), result |-> None]
     ELSE [exc |-> None,
           result |-> Some(DictWithExtraSpecs(nova_specs,
                                              CHOOSE r \in rows : TRUE))]

\* _flavor_get_db.
FlavorGetDb(context, id) ==
  LET rows == {r \in FlavorGetQueryDb(api_flavors, api_projects, context,
                                      None) : r.id = id}
  IN IF rows = {} THEN [exc |-> Some("FlavorNotFound"), result |-> None]
     ELSE [exc |-> None,
           result |-> Some(DictWithExtraSpecs(api_specs,
                                              CHOOSE r \in rows : TRUE))]

\* db.flavor_get of the legacy store.
NovaFlavorGet(context, id) ==
  LET rows == {r \in FlavorGetQueryDb(nova_flavors, nova_projects, context,
                                      None) : r.id = id}
  IN IF rows = {} THEN [exc |-> Some("FlavorNotFound"), result |-> None]
     ELSE [exc |-> None,
           result |-> Some(DictWithExtraSpecs(nova_specs,
                                              CHOOSE r \in rows : TRUE))]

\* Flavor.get_by_id and Flavor.get_by_name: the primary store's record, or
\* else the legacy store's, as a Flavor object.
GetById(context, id) ==
  LET found == FlavorGetDb(context, id)
      db_flavor == IF found.exc = None THEN found ELSE NovaFlavorGet(context, id)
  IN IF db_flavor.exc # None THEN db_flavor
     ELSE [exc |-> None, result |-> Some(FromDbObject(db_flavor.result[1]))]

GetByName(context, name) ==
  LET found == FlavorGetByNameDb(context, name)
      db_flavor == IF found.exc = None THEN found
                   ELSE NovaFlavorGetByName(context, name)
  IN IF db_flavor.exc # None THEN db_flavor
     ELSE [exc |-> None, result |-> Some(FromDbObject(db_flavor.result[1]))]

\* ------------------------------------- destroy, extra specs and access

\* Query.soft_delete(): the rows of the table that are in rows get their
\* deleted column set to their id.
SoftDelete_All(table, rows) == {[r EXCEPT !.deleted = r.id] : r \in table}

SoftDelete(table, rows) ==
  {IF r \in rows THEN [r EXCEPT !.deleted = r.id] ELSE r : r \in table}

\* _flavor_get_id_from_flavor_query_db: the ids of the live primary rows
\* with that flavorid.
FlavorGetIdFromFlavorQueryDb_ReadDeleted(context, flavor_id) ==
  {r.id : r \in {x \in api_flavors : x.flavorid = flavor_id}}

FlavorGetIdFromFlavorQueryDb(context, flavor_id) ==
  {r.id : r \in {x \in ModelQuery(api_flavors, context, Some("no")) :
                   x.flavorid = flavor_id}}

\* _flavor_extra_specs_get_db: the live extra specs of the live primary
\* flavor with that flavorid, as a dict.
FlavorExtraSpecsGetDb(context, flavor_id) ==
  LET rows == {e \in ModelQuery(api_specs, context, Some("no")) :
                 e.flavor_id \in FlavorGetIdFromFlavorQueryDb(context, flavor_id)}
  IN [k \in {e.key : e \in rows} |-> (CHOOSE e \in rows : e.key = k).value]

\* _flavor_access_get_by_flavor_id_db: the live access rows of the live
\* primary flavor with that flavorid.
FlavorAccessGetByFlavorIdDb(context, flavor_id) ==
  {a \in ModelQuery(api_projects, context, Some("no")) :
     a.flavor_id \in FlavorGetIdFromFlavorQueryDb(context, flavor_id)}

\* db.flavor_destroy of the legacy store: soft-deletes the live flavor with
\* that name, its extra specs and its access rows, or raises
\* FlavorNotFoundByName.
NovaFlavorDestroy(context, name) ==
  LET refs == {r \in nova_flavors : r.deleted = 0 /\ r.name = name}
      ids == {r.id : r \in refs}
  IN IF refs = {}
     THEN [exc |-> Some("FlavorNotFoundByName"), nova_flavors |-> nova_flavors,
           nova_projects |-> nova_projects, nova_specs |-> nova_specs]
     ELSE [exc |-> None,
           nova_flavors |-> SoftDelete(nova_flavors, refs),
           nova_projects |-> SoftDelete(nova_projects,
             {x \in nova_projects : x.deleted = 0 /\ x.flavor_id \in ids}),
           nova_specs |-> SoftDelete(nova_specs,
             {x \in nova_specs : x.deleted = 0 /\ x.flavor_id \in ids})]

\* _flavor_destroy_db(context, name): the exception raised, if any, and
\* the tables of both stores afterwards.
FlavorDestroyDb_LegacyOnly(context, name) ==
  NovaFlavorDestroy(context, name)
    @@ [flavors |-> api_flavors, projects |-> api_projects, specs |-> api_specs]

FlavorDestroyDb(context, name) ==
  LET refs == {r \in ModelQuery(api_flavors, context, Some("no")) :
                 r.name = name}
      ref == CHOOSE r \in refs : TRUE
      legacy == NovaFlavorDestroy(context, name)
      here == [flavors |-> api_flavors, projects |-> api_projects,
               specs |-> api_specs]
  IN IF refs = {}
     THEN \* the legacy store's outcome is the call's outcome
          legacy @@ here
     ELSE [exc |-> None,
           flavors |-> SoftDelete(api_flavors, {ref}),
           specs |-> SoftDelete(api_specs,
             {x \in ModelQuery(api_specs, context, Some("no")) :
                x.flavor_id = ref.id}),
           projects |-> SoftDelete(api_projects,
             {x \in ModelQuery(api_projects, context, Some("no")) :
                x.flavor_id = ref.id}),
           \* FlavorNotFoundByName of the legacy store is passed over
           nova_flavors |-> legacy.nova_flavors,
           nova_projects |-> legacy.nova_projects,
           nova_specs |-> legacy.nova_specs]

\* One attempt of _flavor_extra_specs_update_or_create_db(context,
\* flavor_id, specs) that no concurrent transaction disturbs: the
\* exception raised, if any, the extra specs table afterwards and the
\* dict returned.
FlavorExtraSpecsUpdateOrCreateDb_InsertOnly(context, flavor_id, specs) ==
  LET ids == FlavorGetIdFromFlavorQueryDb(context, flavor_id)
      keys == DOMAIN specs
      key_seq == CHOOSE q \in [1..Cardinality(keys) -> keys] :
                   \A i, j \in 1..Cardinality(keys) : i # j => q[i] # q[j]
      added == {[id |-> NextId(api_specs) + i - 1,
                 flavor_id |-> CHOOSE i0 \in ids : TRUE,
                 key |-> key_seq[i], value |-> specs[key_seq[i]],
                 deleted |-> 0] : i \in 1..Cardinality(keys)}
  IN IF ids = {}
     THEN [exc |-> Some("FlavorNotFound"), specs |-> api_specs,
           result |-> None]
     ELSE [exc |-> None, specs |-> api_specs \cup added,
           result |-> Some(specs)]

FlavorExtraSpecsUpdateOrCreateDb(context, flavor_id, specs) ==
  LET ids == FlavorGetIdFromFlavorQueryDb(context, flavor_id)
      id == CHOOSE i \in ids : TRUE
      spec_refs == {e \in ModelQuery(api_specs, context, Some("no")) :
                      e.flavor_id = id /\ e.key \in DOMAIN specs}
      existing_keys == {e.key : e \in spec_refs}
      updated == {IF e \in spec_refs THEN [e EXCEPT !.value = specs[e.key]]
                  ELSE e : e \in api_specs}
      keys == DOMAIN specs \ existing_keys
      first_spec == NextId(api_specs)
      key_seq == CHOOSE q \in [1..Cardinality(keys) -> keys] :
                   \A i, j \in 1..Cardinality(keys) : i # j => q[i] # q[j]
      added == {[id |-> first_spec + i - 1, flavor_id |-> id,
                 key |-> key_seq[i], value |-> specs[key_seq[i]],
                 deleted |-> 0] : i \in 1..Cardinality(keys)}
  IN IF ids = {}
     THEN [exc |-> Some("FlavorNotFound"), specs |-> api_specs,
           result |-> None]
     ELSE [exc |-> None, specs |-> updated \cup added,
           result |-> Some(specs)]

\* A call of _flavor_destroy_db(context, name).
FlavorDestroy(name) ==
  LET out == FlavorDestroyDb(AdminCtxt, name)
  IN /\ ret = NoCall /\ pager = NoPager
     /\ api_flavors' = out.flavors
     /\ api_projects' = out.projects
     /\ api_specs' = out.specs
     /\ nova_flavors' = out.nova_flavors
     /\ nova_projects' = out.nova_projects
     /\ nova_specs' = out.nova_specs
     /\ ret' = [op |-> "destroy", name |-> name, exc |-> out.exc]
     /\ UNCHANGED <<pager, calls>>

\* Arguments of extra specs upserts.
SpecPairs == {[k \in {"k1"} |-> "v2"], [k \in {"k2"} |-> "v1"],
              [k \in {"k1", "k2"} |-> IF k = "k1" THEN "v2" ELSE "v1"]}

\* A call of _flavor_extra_specs_update_or_create_db(context, flavor_id,
\* specs).
FlavorExtraSpecsUpdateOrCreate(flavor_id, specs) ==
  LET out == FlavorExtraSpecsUpdateOrCreateDb(AdminCtxt, flavor_id, specs)
  IN /\ ret = NoCall /\ pager = NoPager
     /\ api_specs' = out.specs
     /\ ret' = [op |-> "extra_specs_update_or_create",
                flavor_id |-> flavor_id, specs |-> specs, exc |-> out.exc,
                result |-> out.result]
     /\ UNCHANGED <<api_flavors, api_projects, nova_flavors, nova_projects,
                    nova_specs, pager, calls>>

\* The flavors of calls that create, destroy and upsert.
CrudFlavorIds == {"f1", "f2"}
CrudValues == {v \in FlavorValues : v.name \in {"a1", "a2"}}
CrudNames == {v.name : v \in CrudValues}

NextCrud ==
  \/ \E flavorid \in CrudFlavorIds, v \in CrudValues,
        extra_specs \in ExtraSpecSets :
          \/ \E projects \in ProjectLists :
               FlavorCreate(flavorid, v, extra_specs, projects)
          \/ \E grants \in GrantSets :
               NovaFlavorCreate(flavorid, v, extra_specs, grants)
  \/ \E name \in CrudNames : FlavorDestroy(name)
  \/ Return

SpecCrud == Init /\ [][NextCrud]_vars

\* _flavor_get_id_from_flavor_db: the id of the live primary flavor with
\* that flavorid, or FlavorNotFound.
FlavorGetIdFromFlavorDb(context, flavor_id) ==
  LET ids == FlavorGetIdFromFlavorQueryDb(context, flavor_id)
  IN IF ids = {} THEN [exc |-> Some("FlavorNotFound"), result |-> None]
     ELSE [exc |-> None, result |-> Some(CHOOSE i \in ids : TRUE)]

\* _flavor_access_add_db: the exception raised, if any, the access table
\* after the call and the row returned.  The save violates
\* uniq_flavor_projects0flavor_id0project_id0deleted when a live row of the
\* flavor and project is there.
FlavorAccessAddDb_NoSoftDelete(context, flavor_id, project_id) ==
  LET found == FlavorGetIdFromFlavorDb(context, flavor_id)
      access_ref == [id |-> NextId(api_projects), flavor_id |-> found.result[1],
                     project_id |-> project_id, deleted |-> 0]
  IN IF found.exc # None
     THEN [exc |-> found.exc, projects |-> api_projects, result |-> None]
     ELSE IF \E a \in api_projects : /\ a.flavor_id = access_ref.flavor_id
                                     /\ a.project_id = project_id
          THEN [exc |-> Some("FlavorAccessExists"), projects |-> api_projects,
                result |-> None]
          ELSE [exc |-> None, projects |-> api_projects \cup {access_ref},
                result |-> Some(access_ref)]

FlavorAccessAddDb(context, flavor_id, project_id) ==
  LET found == FlavorGetIdFromFlavorDb(context, flavor_id)
      access_ref == [id |-> NextId(api_projects), flavor_id |-> found.result[1],
                     project_id |-> project_id, deleted |-> 0]
  IN IF found.exc # None
     THEN [exc |-> found.exc, projects |-> api_projects, result |-> None]
     ELSE IF \E a \in api_projects : /\ a.flavor_id = access_ref.flavor_id
                                     /\ a.project_id = project_id
                                     /\ a.deleted = access_ref.deleted
          THEN [exc |-> Some("FlavorAccessExists"), projects |-> api_projects,
                result |-> None]
          ELSE [exc |-> None, projects |-> api_projects \cup {access_ref},
                result |-> Some(access_ref)]

\* _flavor_access_remove_db: the exception raised, if any, and the access
\* table after the call.
FlavorAccessRemoveDb_AnyProject(context, flavor_id, project_id) ==
  LET found == FlavorGetIdFromFlavorDb(context, flavor_id)
      rows == {a \in ModelQuery(api_projects, context, Some("no")) :
                 a.flavor_id = found.result[1]}
  IN IF found.exc # None
     THEN [exc |-> found.exc, projects |-> api_projects]
     ELSE IF Cardinality(rows) = 0
          THEN [exc |-> Some("FlavorAccessNotFound"), projects |-> api_projects]
          ELSE [exc |-> None, projects |-> SoftDelete(api_projects, rows)]

FlavorAccessRemoveDb(context, flavor_id, project_id) ==
  LET found == FlavorGetIdFromFlavorDb(context, flavor_id)
      rows == {a \in ModelQuery(api_projects, context, Some("no")) :
                 /\ a.flavor_id = found.result[1]
                 /\ a.project_id = project_id}
      count == Cardinality(rows)
  IN IF found.exc # None
     THEN [exc |-> found.exc, projects |-> api_projects]
     ELSE IF count = 0
          THEN [exc |-> Some("FlavorAccessNotFound"), projects |-> api_projects]
          ELSE [exc |-> None, projects |-> SoftDelete(api_projects, rows)]

\* A call of _flavor_access_add_db(context, flavor_id, project_id).
FlavorAccessAdd(flavor_id, project_id) ==
  LET out == FlavorAccessAddDb(AdminCtxt, flavor_id, project_id)
  IN /\ ret = NoCall /\ pager = NoPager
     /\ Cardinality(api_projects) < MaxGrants
     /\ api_projects' = out.projects
     /\ ret' = [op |-> "access_add", flavor_id |-> flavor_id,
                project_id |-> project_id, exc |-> out.exc,
                result |-> out.result]
     /\ UNCHANGED <<api_flavors, api_specs, nova_flavors, nova_projects,
                    nova_specs, pager, calls>>

\* A call of _flavor_access_remove_db(context, flavor_id, project_id).
FlavorAccessRemove(flavor_id, project_id) ==
  LET out == FlavorAccessRemoveDb(AdminCtxt, flavor_id, project_id)
  IN /\ ret = NoCall /\ pager = NoPager
     /\ api_projects' = out.projects
     /\ ret' = [op |-> "access_remove", flavor_id |-> flavor_id,
                project_id |-> project_id, exc |-> out.exc]
     /\ UNCHANGED <<api_flavors, api_specs, nova_flavors, nova_projects,
                    nova_specs, pager, calls>>

\* Arguments of upserts on flavors with access lists: no or one pair.
AccessPairs == {<<>>, [k \in {"k1"} |-> "v2"]}

\* Two flavors created in the primary store, one public and one not, with
\* no access rows yet; the legacy store is empty.
InitAccess ==
  /\ \E v1, v2 \in CrudValues :
       /\ v1.name # v2.name
       /\ api_flavors = {FlavorRow(1, "f1", v1, 0), FlavorRow(2, "f2", v2, 0)}
  /\ api_projects = {} /\ api_specs = {}
  /\ nova_flavors = {} /\ nova_projects = {} /\ nova_specs = {}
  /\ ret = NoCall /\ pager = NoPager /\ calls = NoCalls

\* Destroys and access changes in the primary store.
NextGrants ==
  \/ \E name \in CrudNames : FlavorDestroy(name)
  \/ \E flavor_id \in CrudFlavorIds, project_id \in Projects :
          \/ FlavorAccessAdd(flavor_id, project_id)
          \/ FlavorAccessRemove(flavor_id, project_id)
  \/ Return

SpecGrants == InitAccess /\ [][NextGrants]_vars

\* Destroys, access changes and extra specs upserts in the primary store.
NextAccess ==
  \/ NextGrants
  \/ \E flavor_id \in CrudFlavorIds, specs \in AccessPairs :
          FlavorExtraSpecsUpdateOrCreate(flavor_id, specs)

SpecAccess == InitAccess /\ [][NextAccess]_vars

\* Creates and destroys of flavors without extra specs and access rows in
\* the primary store; the legacy store is empty.
NextRecreate ==
  \/ \E flavorid \in CrudFlavorIds, v \in CrudValues :
          FlavorCreate(flavorid, v, <<>>, <<>>)
  \/ \E name \in CrudNames : FlavorDestroy(name)
  \/ Return

SpecRecreate == Init /\ [][NextRecreate]_vars

\* Creates, destroys and extra specs upserts in the primary store.
NextSpecs ==
  \/ \E flavorid \in CrudFlavorIds, v \in CrudValues,
        extra_specs \in ExtraSpecSets :
          FlavorCreate(flavorid, v, extra_specs, <<>>)
  \/ \E name \in CrudNames : FlavorDestroy(name)
  \/ \E flavor_id \in CrudFlavorIds, specs \in SpecPairs :
          FlavorExtraSpecsUpdateOrCreate(flavor_id, specs)
  \/ Return

SpecSpecs == Init /\ [][NextSpecs]_vars

\* ------------------------------------------------- concurrent callers

\* _flavor_by_flavor_id_exist_in_db and _flavor_by_name_exist_in_db: the
\* pre-checks of Flavor.create look into the legacy store.
FlavorByFlavorIdExistInDb(context, f_id) ==
  NovaFlavorGetByFlavorId(context, f_id, None).exc = None
FlavorByNameExistInDb(context, f_name) ==
  NovaFlavorGetByName(context, f_name).exc = None

\* Flavor.get_by_flavor_id, up to the call of _migrate_flavor_to_api: the
\* lookup in the primary store and, when it misses, in the legacy store.
\* racing notes the callers that are between their miss and their insert
\* for the same flavorid at this moment.
GetBegin(c, context, flavor_id) ==
  LET found == FlavorGetByFlavorIdDb(context, flavor_id, None)
      legacy == NovaFlavorGetByFlavorId(context, flavor_id, None)
      call == [op |-> "get_by_flavor_id", context |-> context,
               flavor_id |-> flavor_id]
  IN /\ calls[c].pc = "idle"
     /\ calls' = [calls EXCEPT ![c] =
          IF found.exc = None
          THEN call @@ [pc |-> "done", missed |-> FALSE, exc |-> None,
                        result |-> Some(FromDbObject(found.result[1]))]
          ELSE IF legacy.exc # None
               THEN call @@ [pc |-> "done", missed |-> FALSE,
                             exc |-> legacy.exc, result |-> None]
               ELSE call @@ [pc |-> "missed", db_flavor |-> legacy.result[1],
                             racing |-> {d \in Callers \ {c} :
                                           /\ calls[d].pc = "missed"
                                           /\ calls[d].flavor_id = flavor_id}]]
     /\ UNCHANGED <<stores, ret, pager>>

\* Flavor.get_by_flavor_id from _migrate_flavor_to_api on: the insert into
\* the primary store, whose exception leaves the call.
GetMigrate(c) ==
  /\ calls[c].pc = "missed"
  /\ \E m \in MigrateFlavorToApi(calls[c].context, calls[c].db_flavor,
                                 calls[c].flavor_id) :
       /\ api_flavors' = m.flavors
       /\ api_projects' = m.projects
       /\ api_specs' = m.specs
       /\ calls' = [calls EXCEPT ![c] =
            [op |-> "get_by_flavor_id", context |-> calls[c].context,
             flavor_id |-> calls[c].flavor_id, pc |-> "done",
             missed |-> TRUE, racing |-> calls[c].racing, exc |-> m.exc,
             result |-> IF m.exc # None THEN None
                        ELSE Some(FromDbObject(calls[c].db_flavor))]]
  /\ UNCHANGED <<nova_flavors, nova_projects, nova_specs, ret, pager>>

\* Flavor.create, up to the call of _flavor_create_db: the pre-checks.
CreateBegin(c, context, flavorid, v, extra_specs, projects) ==
  LET updates == CreateValues(flavorid, v, extra_specs)
      call == [op |-> "create", context |-> context, values |-> updates,
               projects |-> projects]
  IN /\ calls[c].pc = "idle"
     /\ calls' = [calls EXCEPT ![c] =
          IF FlavorByFlavorIdExistInDb(context, flavorid)
          THEN call @@ [pc |-> "done", inserting |-> FALSE,
                        exc |-> Some("FlavorIdExists"), result |-> None]
          ELSE IF FlavorByNameExistInDb(context, v.name)
               THEN call @@ [pc |-> "done", inserting |-> FALSE,
                             exc |-> Some("FlavorExists"), result |-> None]
               ELSE call @@ [pc |-> "checked"]]
     /\ UNCHANGED <<stores, ret, pager>>

\* Flavor.create from _flavor_create_db on.
CreateInsert(c) ==
  /\ calls[c].pc = "checked"
  /\ \E out \in FlavorCreateDb(calls[c].context, calls[c].values,
                               {PyStr(p) : p \in SetOf(calls[c].projects)}) :
       /\ api_flavors' = out.flavors
       /\ api_projects' = out.projects
       /\ api_specs' = out.specs
       /\ calls' = [calls EXCEPT ![c] =
            [op |-> "create", context |-> calls[c].context,
             values |-> calls[c].values, projects |-> calls[c].projects,
             pc |-> "done", inserting |-> TRUE, exc |-> out.exc,
             result |-> IF out.exc # None THEN None
                        ELSE Some(FromDbObject(out.result[1]))]]
  /\ UNCHANGED <<nova_flavors, nova_projects, nova_specs, ret, pager>>

\* The legacy store holds at most one flavor, the primary store is empty,
\* and each caller makes one call.
InitRace ==
  /\ api_flavors = {} /\ api_projects = {} /\ api_specs = {}
  /\ \E flavorid \in FlavorIds, v \in FlavorValues, grants \in GrantSets :
       \/ nova_flavors = {} /\ nova_projects = {}
       \/ /\ nova_flavors = {FlavorRow(1, flavorid, v, 0)}
          /\ nova_projects = {[id |-> i, flavor_id |-> 1, project_id |-> p,
                               deleted |-> 0] : i \in {1}, p \in grants}
  /\ nova_specs = {}
  /\ ret = NoCall
  /\ pager = NoPager
  /\ calls = NoCalls

NextRace ==
  \E c \in Callers :
    \/ \E context \in Contexts, flavor_id \in FlavorIds :
         GetBegin(c, context, flavor_id)
    \/ GetMigrate(c)
    \/ \E flavorid \in FlavorIds, v \in FlavorValues,
          extra_specs \in ExtraSpecSets, projects \in ProjectLists :
         CreateBegin(c, AdminCtxt, flavorid, v, extra_specs, projects)
    \/ CreateInsert(c)

SpecRace == InitRace /\ [][NextRace]_vars

\* ----------------------------------- concurrent extra specs upserts

\* Flavorids of the flavors whose extra specs change: one that is no
\* number, and two that read as the ids of flavor rows.
UpsertFlavorIds == {"f1", "1", "2"}
SpecKeys == {"k1", "k2"}

\* str(n) of a flavor row's id.
IntStr(n) == <<"1", "2", "3", "4", "5", "6", "7", "8", "9">>[n]

\* A value bound to flavorid in filter_by(flavorid=...): the str the caller
\* passed, or the int that the loop of
\* _flavor_extra_specs_update_or_create_db has bound to flavor_id.
PyInt(n) == [kind |-> "int", n |-> n]

\* _flavor_get_id_from_flavor_db(context, flavor_id, session) for such a
\* value: the outcomes.  A database that compares the String column with an
\* int as text finds the flavor whose flavorid reads as that int; one that
\* has no such comparison fails the statement.
LookupFlavorId(context, flavor_id) ==
  IF flavor_id.kind = "str"
  THEN {FlavorGetIdFromFlavorDb(context, flavor_id.s)}
  ELSE {FlavorGetIdFromFlavorDb(context, IntStr(flavor_id.n)),
        [exc |-> Some("DBError"), result |-> None]}

\* The query of one attempt of _flavor_extra_specs_update_or_create_db: the
\* live rows of the flavor id with a key of specs, as (id, key).
UpsertSpecRefs(context, id, specs) ==
  {[id |-> e.id, key |-> e.key] :
     e \in {x \in ModelQuery(api_specs, context, Some("no")) :
              x.flavor_id = id /\ x.key \in DOMAIN specs}}

\* The writes of one attempt, at the commit: the rows read are updated, a
\* row is inserted for every other key, and the insert violates
\* uniq_flavor_extra_specs0flavor_id0key0deleted when a live row of the
\* flavor id and key has been committed since the read; the transaction is
\* then rolled back.
UpsertCommit(id, spec_refs, specs) ==
  LET existing_keys == {x.key : x \in spec_refs}
      keys == DOMAIN specs \ existing_keys
      updated == {IF \E x \in spec_refs : x.id = e.id
                  THEN [e EXCEPT !.value = specs[e.key]]
                  ELSE e : e \in api_specs}
      first_spec == NextId(api_specs)
      key_seq == CHOOSE q \in [1..Cardinality(keys) -> keys] :
                   \A i, j \in 1..Cardinality(keys) : i # j => q[i] # q[j]
      added == {[id |-> first_spec + i - 1, flavor_id |-> id,
                 key |-> key_seq[i], value |-> specs[key_seq[i]],
                 deleted |-> 0] : i \in 1..Cardinality(keys)}
  IN IF \E e \in api_specs : /\ e.flavor_id = id /\ e.key \in keys
                             /\ e.deleted = 0
     THEN [exc |-> Some("DBDuplicateEntry"), specs |-> api_specs]
     ELSE [exc |-> None, specs |-> updated \cup added]

\* attempt == max_retries - 1.
LastAttempt_Late(attempt, max_retries) == attempt = max_retries

LastAttempt(attempt, max_retries) == attempt = max_retries - 1

\* One pass of the loop up to the query: the lookup of the flavor's id,
\* which rebinds flavor_id, and the rows read.  An exception of the lookup
\* leaves the call.  attempts counts the passes begun.
UpsertAttempt(call) ==
  {IF found.exc # None
   THEN [call EXCEPT !.pc = "done", !.attempts = @ + 1, !.exc = found.exc]
   ELSE [call EXCEPT !.pc = "write", !.attempts = @ + 1,
                     !.flavor_id = PyInt(found.result[1]),
                     !.spec_refs = UpsertSpecRefs(AdminCtxt, found.result[1],
                                                  call.specs)] :
   found \in LookupFlavorId(AdminCtxt, call.flavor_id)}

\* Caller c calls _flavor_extra_specs_update_or_create_db(context,
\* flavor_id, specs, max_retries) and runs the first pass up to the query.
UpsertBegin(c, flavor_id, specs, max_retries) ==
  /\ calls[c].pc = "idle"
  /\ \E call \in UpsertAttempt(
          [op |-> "upsert", pc |-> "begin", arg |-> flavor_id,
           flavor_id |-> PyStr(flavor_id), specs |-> specs,
           max_retries |-> max_retries, attempt |-> 0, attempts |-> 0,
           dups |-> 0, spec_refs |-> {}, exc |-> None, result |-> None]) :
       calls' = [calls EXCEPT ![c] = call]
  /\ UNCHANGED <<stores, ret, pager>>

\* The next pass of caller c's loop, up to the query.
UpsertRetry(c) ==
  /\ calls[c].pc = "retry"
  /\ \E call \in UpsertAttempt(calls[c]) : calls' = [calls EXCEPT ![c] = call]
  /\ UNCHANGED <<stores, ret, pager>>

\* The rest of caller c's pass: the writes and the commit, the return of
\* specs, or the DBDuplicateEntry, after which the loop goes on unless this
\* was the last attempt.  dups counts the passes that met DBDuplicateEntry.
UpsertWrite(c) ==
  LET call == calls[c]
      out == UpsertCommit(call.flavor_id.n, call.spec_refs, call.specs)
  IN /\ call.pc = "write"
     /\ api_specs' = out.specs
     /\ calls' = [calls EXCEPT ![c] =
          IF out.exc = None
          THEN [call EXCEPT !.pc = "done", !.result = Some(call.specs)]
          ELSE IF LastAttempt(call.attempt, call.max_retries)
               THEN [call EXCEPT !.pc = "done", !.dups = @ + 1,
                       !.exc = Some("FlavorExtraSpecUpdateCreateFailed")]
               ELSE [call EXCEPT !.pc = "retry", !.dups = @ + 1,
                                 !.attempt = @ + 1]]
     /\ UNCHANGED <<api_flavors, api_projects, nova_flavors, nova_projects,
                    nova_specs, ret, pager>>

\* _flavor_extra_specs_delete_db: the exception raised, if any, and the
\* extra specs table after the call.
FlavorExtraSpecsDeleteDb_AnyKey(context, flavor_id, key) ==
  LET rows == {e \in ModelQuery(api_specs, context, Some("no")) :
                 e.flavor_id \in FlavorGetIdFromFlavorQueryDb(context, flavor_id)}
  IN IF Cardinality(rows) = 0
     THEN [exc |-> Some("FlavorExtraSpecsNotFound"), specs |-> api_specs]
     ELSE [exc |-> None, specs |-> SoftDelete(api_specs, rows)]

FlavorExtraSpecsDeleteDb(context, flavor_id, key) ==
  LET rows == {e \in ModelQuery(api_specs, context, Some("no")) :
                 /\ e.flavor_id \in FlavorGetIdFromFlavorQueryDb(context, flavor_id)
                 /\ e.key = key}
      result == Cardinality(rows)
  IN IF result = 0
     THEN [exc |-> Some("FlavorExtraSpecsNotFound"), specs |-> api_specs]
     ELSE [exc |-> None, specs |-> SoftDelete(api_specs, rows)]

\* A call of _flavor_extra_specs_delete_db(context, flavor_id, key).
FlavorExtraSpecsDelete(flavor_id, key) ==
  LET out == FlavorExtraSpecsDeleteDb(AdminCtxt, flavor_id, key)
  IN /\ ret = NoCall /\ pager = NoPager
     /\ api_specs' = out.specs
     /\ ret' = [op |-> "extra_specs_delete", flavor_id |-> flavor_id,
                key |-> key, exc |-> out.exc]
     /\ UNCHANGED <<api_flavors, api_projects, nova_flavors, nova_projects,
                    nova_specs, pager, calls>>

\* The pairs caller c upserts: its own value for k1, or for k1 and k2.
RacePairs(c) ==
  LET v == IF c = "c1" THEN "v1" ELSE "v2"
  IN {[k \in {"k1"} |-> v], [k \in SpecKeys |-> v]}

\* Flavors created in the primary store, with no extra specs yet: one whose
\* flavorid is no number, one whose flavorid reads as its id, or two whose
\* flavorids read as each other's ids.
InitUpsert ==
  /\ \E v1, v2 \in CrudValues :
       /\ v1.name = "a1" /\ v2.name = "a2"
       /\ api_flavors \in {{FlavorRow(1, "f1", v1, 0)},
                           {FlavorRow(1, "1", v1, 0)},
                           {FlavorRow(1, "2", v1, 0), FlavorRow(2, "1", v2, 0)}}
  /\ api_projects = {} /\ api_specs = {}
  /\ nova_flavors = {} /\ nova_projects = {} /\ nova_specs = {}
  /\ ret = NoCall /\ pager = NoPager /\ calls = NoCalls

\* The steps of caller c's one upsert.
Upsert(c) ==
  \/ \E flavor_id \in UpsertFlavorIds, specs \in RacePairs(c),
        max_retries \in 1..MaxRetries :
       UpsertBegin(c, flavor_id, specs, max_retries)
  \/ UpsertRetry(c)
  \/ UpsertWrite(c)

\* Two callers upsert, each once, and nothing else runs.
NextPair == \E c \in Callers : Upsert(c)

SpecPair == InitUpsert /\ [][NextPair]_vars

\* One caller upserts, once, while another makes whole calls of the upsert
\* and of the delete, one at a time.
NextUpsert ==
  \/ Upsert("c1")
  \/ \E flavor_id \in UpsertFlavorIds :
       \/ \E key \in SpecKeys : FlavorExtraSpecsDelete(flavor_id, key)
       \/ /\ Cardinality(api_specs) < MaxSpecRows
          /\ \E specs \in AccessPairs :
               FlavorExtraSpecsUpdateOrCreate(flavor_id, specs)
  \/ Return

SpecUpsert == InitUpsert /\ [][NextUpsert]_vars

\* ---------------------------------- destroy against concurrent writers

\* Caller c calls _flavor_access_add_db(context, flavor_id, project_id) and
\* runs it up to the save: the lookup of the flavor's id, whose exception
\* leaves the call.
AccessAddBegin(c, flavor_id, project_id) ==
  LET found == FlavorGetIdFromFlavorDb(AdminCtxt, flavor_id)
      call == [op |-> "access_add", arg |-> flavor_id,
               project_id |-> project_id, result |-> None]
  IN /\ calls[c].pc = "idle"
     /\ calls' = [calls EXCEPT ![c] =
          IF found.exc # None
          THEN call @@ [pc |-> "done", flavor_id |-> None, exc |-> found.exc]
          ELSE call @@ [pc |-> "save", flavor_id |-> found.result,
                        exc |-> None]]
     /\ UNCHANGED <<stores, ret, pager>>

\* The rest of caller c's _flavor_access_add_db: access_ref.save(session)
\* with the id looked up, FlavorAccessExists on DBDuplicateEntry.
AccessAddSave(c) ==
  LET call == calls[c]
      access_ref == [id |-> NextId(api_projects),
                     flavor_id |-> call.flavor_id[1],
                     project_id |-> call.project_id, deleted |-> 0]
      duplicate == \E a \in api_projects :
                     /\ a.flavor_id = access_ref.flavor_id
                     /\ a.project_id = access_ref.project_id
                     /\ a.deleted = access_ref.deleted
  IN /\ call.pc = "save"
     /\ api_projects' = IF duplicate THEN api_projects
                        ELSE api_projects \cup {access_ref}
     /\ calls' = [calls EXCEPT ![c] =
          IF duplicate
          THEN [call EXCEPT !.pc = "done", !.exc = Some("FlavorAccessExists")]
          ELSE [call EXCEPT !.pc = "done", !.result = Some(access_ref)]]
     /\ UNCHANGED <<api_flavors, api_specs, nova_flavors, nova_projects,
                    nova_specs, ret, pager>>

\* Each caller makes one call, of the access add or of the upsert, in
\* steps, while flavors are destroyed.
NextCascade ==
  \/ \E c \in Callers :
       \/ \E flavor_id \in CrudFlavorIds, project_id \in Projects :
            AccessAddBegin(c, flavor_id, project_id)
       \/ AccessAddSave(c)
       \/ \E flavor_id \in CrudFlavorIds, specs \in RacePairs(c),
             max_retries \in 1..MaxRetries :
            UpsertBegin(c, flavor_id, specs, max_retries)
       \/ UpsertRetry(c)
       \/ UpsertWrite(c)
  \/ \E name \in CrudNames : FlavorDestroy(name)
  \/ Return

SpecCascade == InitAccess /\ [][NextCascade]_vars

\* ------------------------------------------------------------- reads

\* A call of Flavor.get_by_id(context, id).
FlavorGetById(context, id) ==
  LET out == GetById(context, id)
  IN /\ ret = NoCall /\ pager = NoPager
     /\ ret' = [op |-> "get_by_id", context |-> context, id |-> id,
                exc |-> out.exc, result |-> out.result]
     /\ UNCHANGED <<stores, pager, calls>>

\* A call of Flavor.get_by_name(context, name).
FlavorGetByName(context, name) ==
  LET out == GetByName(context, name)
  IN /\ ret = NoCall /\ pager = NoPager
     /\ ret' = [op |-> "get_by_name", context |-> context, name |-> name,
                exc |-> out.exc, result |-> out.result]
     /\ UNCHANGED <<stores, pager, calls>>

\* A call of _flavor_extra_specs_get_db(context, flavor_id).
FlavorExtraSpecsGet(flavor_id) ==
  /\ ret = NoCall /\ pager = NoPager
  /\ ret' = [op |-> "extra_specs_get", flavor_id |-> flavor_id, exc |-> None,
             result |-> FlavorExtraSpecsGetDb(AdminCtxt, flavor_id)]
  /\ UNCHANGED <<stores, pager, calls>>

\* A call of _flavor_access_get_by_flavor_id_db(context, flavor_id).
FlavorAccessGet(flavor_id) ==
  /\ ret = NoCall /\ pager = NoPager
  /\ ret' = [op |-> "access_get", flavor_id |-> flavor_id, exc |-> None,
             result |-> FlavorAccessGetByFlavorIdDb(AdminCtxt, flavor_id)]
  /\ UNCHANGED <<stores, pager, calls>>

\* The flavors tables with k live rows of the flavors that calls create
\* and destroy.
CrudTables(k) ==
  {t \in LiveTables(k) : \A r \in t : /\ r.flavorid \in CrudFlavorIds
                                      /\ r.name \in CrudNames}

\* Both stores hold live flavors, at most MaxListRows together, the legacy
\* flavors with the same access rows; the primary flavors have none yet.
InitReads ==
  /\ \E k \in 0..MaxListRows, l \in 0..MaxListRows :
       /\ k + l <= MaxListRows
       /\ api_flavors \in CrudTables(k)
       /\ nova_flavors \in CrudTables(l)
  /\ \E grants \in GrantSets :
       nova_projects = {[id |-> r.id, flavor_id |-> r.id, project_id |-> p,
                         deleted |-> 0] : r \in nova_flavors, p \in grants}
  /\ api_projects = {} /\ api_specs = {} /\ nova_specs = {}
  /\ ret = NoCall /\ pager = NoPager /\ calls = NoCalls

\* The callers of reads: the admin and the caller of project p1.
Readers == {AdminCtxt, UserCtxt("p1")}

\* Reads by both callers, and the admin's changes of access lists.
NextReads ==
  \/ \E context \in Readers :
       \/ \E id \in 1..MaxListRows : FlavorGetById(context, id)
       \/ \E name \in CrudNames : FlavorGetByName(context, name)
       \/ \E flavor_id \in CrudFlavorIds : GetByFlavorId(context, flavor_id)
       \/ FlavorGetAll(context, NoFilters, "flavorid",
                       [str |-> "asc", is_literal |-> TRUE], None, None)
  \/ \E flavor_id \in CrudFlavorIds :
       \/ FlavorExtraSpecsGet(flavor_id)
       \/ FlavorAccessGet(flavor_id)
       \/ FlavorAccessAdd(flavor_id, "p1")
       \/ FlavorAccessRemove(flavor_id, "p1")
  \/ Return

SpecReads == InitReads /\ [][NextReads]_vars

\* -------------------------------------------------------- the Flavor object

\* Flavor.__init__ and the rest of _from_db_object with
\* expected_attrs=['extra_specs']: projects stays unset, and
\* obj_reset_changes() leaves no changed field and takes the extra specs as
\* the original ones.  unset holds the names of the attributes not set,
\* changed the names of the fields assigned since the last reset.
FlavorObject(context, fields) ==
  fields @@ [context |-> context, unset |-> {"projects"}, projects |-> <<>>,
             changed |-> {}, orig_extra_specs |-> fields.extra_specs,
             orig_projects |-> <<>>]

\* Flavor.obj_what_changed.
ObjWhatChanged(o) ==
  o.changed
    \cup {x \in {"extra_specs"} : /\ "extra_specs" \notin o.unset
                                   /\ o.extra_specs # o.orig_extra_specs}
    \cup {x \in {"projects"} : /\ "projects" \notin o.unset
                                /\ o.projects # o.orig_projects}

\* Flavor.obj_reset_changes(fields) for fields of extra_specs and projects.
ObjResetChanges(o, fields) ==
  [o EXCEPT !.changed = @ \ fields,
            !.orig_extra_specs = IF "extra_specs" \in fields
                                 THEN o.extra_specs ELSE @,
            !.orig_projects = IF "projects" \in fields
                              THEN o.projects ELSE @]

\* What is left of a save(): the pairs save_extra_specs still has to
\* upsert, the keys it still has to delete, the projects save_projects
\* still has to add and to remove, and whether each of the two resets the
\* changes at its end.
NoWork == [upsert |-> None, del_keys |-> {}, reset_specs |-> FALSE,
           add_projects |-> {}, del_projects |-> {}, reset_projects |-> FALSE]

\* Caller c holds the object o after calling method, which raised exc or
\* returned.  before holds the primary store's extra specs and access rows
\* at the start of a save().
Held(o, method, exc) ==
  [op |-> "flavor", pc |-> "held", obj |-> o, method |-> method,
   exc |-> exc, work |-> NoWork, before |-> None]

\* Flavor.get_by_id(context, id), when it returns.
ObjGetById(c, context, id) ==
  LET out == GetById(context, id)
  IN /\ calls[c].pc = "idle"
     /\ out.exc = None
     /\ calls' = [calls EXCEPT ![c] =
          Held(FlavorObject(context, out.result[1]), "get_by_id", None)]
     /\ UNCHANGED <<stores, ret, pager>>

\* Flavor.get_by_name(context, name), when it returns.
ObjGetByName(c, context, name) ==
  LET out == GetByName(context, name)
  IN /\ calls[c].pc = "idle"
     /\ out.exc = None
     /\ calls' = [calls EXCEPT ![c] =
          Held(FlavorObject(context, out.result[1]), "get_by_name", None)]
     /\ UNCHANGED <<stores, ret, pager>>

\* Flavor.get_by_flavor_id(context, flavor_id), with its migration.
ObjGetByFlavorId(c, context, flavor_id) ==
  /\ calls[c].pc = "idle"
  /\ \E out \in GetByFlavorIdOutcomes(context, flavor_id, None) :
       /\ api_flavors' = out.flavors
       /\ api_projects' = out.projects
       /\ api_specs' = out.specs
       /\ calls' = IF out.exc # None THEN calls
                   ELSE [calls EXCEPT ![c] =
                          Held(FlavorObject(context, out.result[1]),
                               "get_by_flavor_id", None)]
  /\ UNCHANGED <<nova_flavors, nova_projects, nova_specs, ret, pager>>

\* The caller lets the object go.
ObjDrop(c) ==
  /\ calls[c].pc = "held"
  /\ calls' = [calls EXCEPT ![c] = [pc |-> "idle"]]
  /\ UNCHANGED <<stores, ret, pager>>

\* flavor.memory_mb = memory_mb.
ObjSetField(c, memory_mb) ==
  /\ calls[c].pc = "held"
  /\ calls' = [calls EXCEPT ![c].obj.memory_mb = memory_mb,
                            ![c].obj.changed = @ \cup {"memory_mb"}]
  /\ UNCHANGED <<stores, ret, pager>>

\* flavor.extra_specs = extra_specs (assign), or a change of the dict in
\* place.
ObjSetExtraSpecs(c, extra_specs, assign) ==
  /\ calls[c].pc = "held"
  /\ calls' = [calls EXCEPT ![c].obj.extra_specs = extra_specs,
                            ![c].obj.changed =
                              IF assign THEN @ \cup {"extra_specs"} ELSE @]
  /\ UNCHANGED <<stores, ret, pager>>

\* flavor.projects = projects (assign), or a change in place of the list
\* loaded.
ObjSetProjects(c, projects, assign) ==
  /\ calls[c].pc = "held"
  /\ assign \/ "projects" \notin calls[c].obj.unset
  /\ calls' = [calls EXCEPT ![c].obj.projects = projects,
                            ![c].obj.unset = @ \ {"projects"},
                            ![c].obj.changed =
                              IF assign THEN @ \cup {"projects"} ELSE @]
  /\ UNCHANGED <<stores, ret, pager>>

\* Flavor._load_projects, called by obj_load_attr when the unset projects
\* is read and at the end of add_access and remove_access: the project ids
\* of _flavor_access_get_by_flavor_id_db in the order of the query's rows,
\* which it does not fix, then obj_reset_changes(['projects']).
LoadProjects(o) ==
  LET refs == FlavorAccessGetByFlavorIdDb(o.context, o.flavorid)
      n == Cardinality(refs)
  IN {ObjResetChanges([o EXCEPT !.projects = [i \in 1..n |-> q[i].project_id],
                                !.unset = @ \ {"projects"}], {"projects"}) :
        q \in {f \in [1..n -> refs] : \A i, j \in 1..n : i # j => f[i] # f[j]}}

ObjLoadProjects(c) ==
  /\ \/ calls[c].pc = "held" /\ "projects" \in calls[c].obj.unset
     \/ calls[c].pc = "reload"
  /\ \E o \in LoadProjects(calls[c].obj) :
       calls' = [calls EXCEPT ![c].obj = o, ![c].pc = "held"]
  /\ UNCHANGED <<stores, ret, pager>>

\* Flavor.add_access(project_id), up to its _load_projects.
ObjAddAccess_Unchecked(c, project_id) ==
  LET o == calls[c].obj
      out == FlavorAccessAddDb(o.context, o.flavorid, project_id)
  IN /\ calls[c].pc = "held"
     /\ Cardinality(api_projects) < MaxGrants
     /\ api_projects' = out.projects
     /\ calls' = [calls EXCEPT ![c] =
          IF out.exc # None THEN Held(o, "add_access", out.exc)
          ELSE [Held(o, "add_access", None) EXCEPT !.pc = "reload"]]
     /\ UNCHANGED <<api_flavors, api_specs, nova_flavors, nova_projects,
                    nova_specs, ret, pager>>

ObjAddAccess(c, project_id) ==
  LET o == calls[c].obj
      out == FlavorAccessAddDb(o.context, o.flavorid, project_id)
  IN /\ calls[c].pc = "held"
     /\ Cardinality(api_projects) < MaxGrants
     /\ IF "projects" \in ObjWhatChanged(o)
        THEN /\ calls' = [calls EXCEPT ![c] =
                  Held(o, "add_access", Some("ObjectActionError"))]
             /\ UNCHANGED api_projects
        ELSE /\ api_projects' = out.projects
             /\ calls' = [calls EXCEPT ![c] =
                  IF out.exc # None THEN Held(o, "add_access", out.exc)
                  ELSE [Held(o, "add_access", None) EXCEPT !.pc = "reload"]]
     /\ UNCHANGED <<api_flavors, api_specs, nova_flavors, nova_projects,
                    nova_specs, ret, pager>>

\* Flavor.remove_access(project_id), up to its _load_projects.
ObjRemoveAccess(c, project_id) ==
  LET o == calls[c].obj
      out == FlavorAccessRemoveDb(o.context, o.flavorid, project_id)
  IN /\ calls[c].pc = "held"
     /\ IF "projects" \in ObjWhatChanged(o)
        THEN /\ calls' = [calls EXCEPT ![c] =
                  Held(o, "remove_access", Some("ObjectActionError"))]
             /\ UNCHANGED api_projects
        ELSE /\ api_projects' = out.projects
             /\ calls' = [calls EXCEPT ![c] =
                  IF out.exc # None THEN Held(o, "remove_access", out.exc)
                  ELSE [Held(o, "remove_access", None) EXCEPT !.pc = "reload"]]
     /\ UNCHANGED <<api_flavors, api_specs, nova_flavors, nova_projects,
                    nova_specs, ret, pager>>

\* Flavor.save up to its first call of the persistence layer: what
\* save_extra_specs and save_projects are called with.
SaveWork(o) ==
  LET updates == ObjWhatChanged(o)
      deleted_keys == DOMAIN o.orig_extra_specs \ DOMAIN o.extra_specs
      added_keys == DOMAIN o.extra_specs
      deleted_projects == SetOf(o.orig_projects) \ SetOf(o.projects)
      added_projects == SetOf(o.projects) \ SetOf(o.orig_projects)
      specs == /\ "extra_specs" \in updates
               /\ added_keys # {} \/ deleted_keys # {}
      projects == /\ "projects" \in updates
                  /\ added_projects # {} \/ deleted_projects # {}
  IN [upsert |-> IF specs /\ added_keys # {} THEN Some(o.extra_specs)
                 ELSE None,
      del_keys |-> IF specs THEN deleted_keys ELSE {},
      reset_specs |-> specs,
      add_projects |-> IF projects THEN added_projects ELSE {},
      del_projects |-> IF projects THEN deleted_projects ELSE {},
      reset_projects |-> projects]

\* The end of save_extra_specs, of save_projects and of save, each when
\* nothing is left of it.
SaveGoesOn(call) ==
  LET w == call.work
      specs_end == w.upsert = None /\ w.del_keys = {}
      projects_end == /\ specs_end /\ w.add_projects = {}
                      /\ w.del_projects = {}
      o1 == IF specs_end /\ w.reset_specs
            THEN ObjResetChanges(call.obj, {"extra_specs"}) ELSE call.obj
      o2 == IF projects_end /\ w.reset_projects
            THEN ObjResetChanges(o1, {"projects"}) ELSE o1
  IN [call EXCEPT !.obj = o2,
                  !.pc = IF projects_end THEN "held" ELSE "saving",
                  !.work = [w EXCEPT
                    !.reset_specs = IF specs_end THEN FALSE ELSE @,
                    !.reset_projects = IF projects_end THEN FALSE ELSE @]]

\* Flavor.save, up to its first call of the persistence layer.
ObjSave(c) ==
  LET o == calls[c].obj
      updates == ObjWhatChanged(o) \ {"projects", "extra_specs"}
  IN /\ calls[c].pc = "held"
     /\ Cardinality(api_projects) < MaxGrants
     /\ Cardinality(api_specs) < MaxSpecRows
     /\ calls' = [calls EXCEPT ![c] =
          IF updates # {}
          THEN Held(o, "save", Some("ObjectActionError"))
          ELSE SaveGoesOn([Held(o, "save", None) EXCEPT
                             !.work = SaveWork(o),
                             !.before = Some([specs |-> api_specs,
                                              projects |-> api_projects])])]
     /\ UNCHANGED <<stores, ret, pager>>

\* The next call save() makes of the persistence layer: the upsert of the
\* object's extra specs, then the delete of each key removed, then the add
\* of each project added, then the remove of each project removed.  An
\* exception ends save().
ObjSaveStep(c) ==
  LET call == calls[c]
      o == call.obj
      w == call.work
      Raised(exc) == [call EXCEPT !.pc = "held", !.exc = exc, !.work = NoWork]
  IN /\ call.pc = "saving"
     /\ IF w.upsert # None
        THEN LET out == FlavorExtraSpecsUpdateOrCreateDb(o.context, o.flavorid,
                                                         w.upsert[1])
             IN /\ api_specs' = out.specs
                /\ UNCHANGED api_projects
                /\ calls' = [calls EXCEPT ![c] =
                     IF out.exc # None THEN Raised(out.exc)
                     ELSE SaveGoesOn([call EXCEPT !.work.upsert = None])]
        ELSE IF w.del_keys # {}
        THEN \E key \in w.del_keys :
               LET out == FlavorExtraSpecsDeleteDb(o.context, o.flavorid, key)
               IN /\ api_specs' = out.specs
                  /\ UNCHANGED api_projects
                  /\ calls' = [calls EXCEPT ![c] =
                       IF out.exc # None THEN Raised(out.exc)
                       ELSE SaveGoesOn([call EXCEPT
                                          !.work.del_keys = @ \ {key}])]
        ELSE IF w.add_projects # {}
        THEN \E project_id \in w.add_projects :
               LET out == FlavorAccessAddDb(o.context, o.flavorid, project_id)
               IN /\ api_projects' = out.projects
                  /\ UNCHANGED api_specs
                  /\ calls' = [calls EXCEPT ![c] =
                       IF out.exc # None THEN Raised(out.exc)
                       ELSE SaveGoesOn([call EXCEPT
                                          !.work.add_projects = @ \ {project_id}])]
        ELSE \E project_id \in w.del_projects :
               LET out == FlavorAccessRemoveDb(o.context, o.flavorid, project_id)
               IN /\ api_projects' = out.projects
                  /\ UNCHANGED api_specs
                  /\ calls' = [calls EXCEPT ![c] =
                       IF out.exc # None THEN Raised(out.exc)
                       ELSE SaveGoesOn([call EXCEPT
                                          !.work.del_projects = @ \ {project_id}])]
     /\ UNCHANGED <<api_flavors, nova_flavors, nova_projects, nova_specs,
                    ret, pager>>

\* Flavor.create on an object a getter returned: its id is set.
ObjCreate(c) ==
  /\ calls[c].pc = "held"
  /\ "id" \notin calls[c].obj.unset
  /\ calls' = [calls EXCEPT ![c] =
       Held(calls[c].obj, "create", Some("ObjectActionError"))]
  /\ UNCHANGED <<stores, ret, pager>>

\* Flavor.destroy.
ObjDestroy(c) ==
  LET o == calls[c].obj
      out == FlavorDestroyDb(o.context, o.name)
  IN /\ calls[c].pc = "held"
     /\ api_flavors' = out.flavors
     /\ api_projects' = out.projects
     /\ api_specs' = out.specs
     /\ nova_flavors' = out.nova_flavors
     /\ nova_projects' = out.nova_projects
     /\ nova_specs' = out.nova_specs
     /\ calls' = [calls EXCEPT ![c] = Held(o, "destroy", out.exc)]
     /\ UNCHANGED <<ret, pager>>

\* Values a caller gives the object's extra_specs and projects.
ObjExtraSpecs == {<<>>, [k \in {"k1"} |-> "v1"],
                  [k \in SpecKeys |-> IF k = "k1" THEN "v2" ELSE "v1"]}
ObjProjects == {<<>>, <<"p1">>, <<"p1", "p1">>, <<"p2", "p1">>}

\* The primary store holds the flavor f1, with or without extra specs, the
\* legacy store the flavor f2 with the same id; both have the same access
\* rows, none or one.
InitObject ==
  /\ \E v1, v2 \in CrudValues :
       /\ v1.name = "a1" /\ v2.name = "a2"
       /\ api_flavors = {FlavorRow(1, "f1", v1, 0)}
       /\ nova_flavors = {FlavorRow(1, "f2", v2, 0)}
  /\ \E extra_specs \in ExtraSpecSets :
       api_specs = {[id |-> 1, flavor_id |-> 1, key |-> k,
                     value |-> extra_specs[k], deleted |-> 0] :
                      k \in DOMAIN extra_specs}
  /\ \E grants \in GrantSets :
       /\ api_projects = {[id |-> 1, flavor_id |-> 1, project_id |-> p,
                           deleted |-> 0] : p \in grants}
       /\ nova_projects = api_projects
  /\ nova_specs = {}
  /\ ret = NoCall /\ pager = NoPager /\ calls = NoCalls

\* One caller gets a Flavor object, changes it, and calls its methods;
\* nothing else runs.
NextFacade ==
  \/ \E id \in 1..MaxListRows : ObjGetById("c1", AdminCtxt, id)
  \/ \E name \in CrudNames : ObjGetByName("c1", AdminCtxt, name)
  \/ \E flavor_id \in CrudFlavorIds : ObjGetByFlavorId("c1", AdminCtxt, flavor_id)
  \/ ObjSetField("c1", 400)
  \/ ObjSetExtraSpecs("c1", [k \in {"k1"} |-> "v2"], FALSE)
  \/ ObjSetProjects("c1", <<"p1">>, TRUE)
  \/ ObjLoadProjects("c1")
  \/ ObjAddAccess("c1", "p1")
  \/ ObjRemoveAccess("c1", "p1")
  \/ ObjSave("c1")
  \/ ObjSaveStep("c1")
  \/ ObjCreate("c1")
  \/ ObjDestroy("c1")

SpecFacade == InitObject /\ [][NextFacade]_vars

\* Caller c has not called save() of the object it holds.
NotSaved(c) == calls[c].pc = "held" /\ calls[c].method # "save"

\* One caller gets a Flavor object, changes its extra specs and projects,
\* and then saves it, once; nothing else runs.
NextSave ==
  \/ \E id \in 1..MaxListRows : ObjGetById("c1", AdminCtxt, id)
  \/ \E flavor_id \in CrudFlavorIds : ObjGetByFlavorId("c1", AdminCtxt, flavor_id)
  \/ \E extra_specs \in ObjExtraSpecs, assign \in BOOLEAN :
       NotSaved("c1") /\ ObjSetExtraSpecs("c1", extra_specs, assign)
  \/ \E projects \in ObjProjects, assign \in BOOLEAN :
       NotSaved("c1") /\ ObjSetProjects("c1", projects, assign)
  \/ NotSaved("c1") /\ ObjLoadProjects("c1")
  \/ NotSaved("c1") /\ ObjSave("c1")
  \/ ObjSaveStep("c1")

SpecSave == InitObject /\ [][NextSave]_vars

\* ---------------------------------------------------------------- claims

LiveApi == {r \in api_flavors : r.deleted = 0}
LiveNova == {r \in nova_flavors : r.deleted = 0}
ResultIds == {ret.result[i].flavorid : i \in 1..Len(ret.result)}
Listed == ret.op = "get_all" /\ ret.exc = None
\* The call passed sort_dir the way the tests and the defaults do: 'desc',
\* or the literal 'asc'.
LiteralDir == ret.sort_dir.str = "desc" \/ ret.sort_dir.is_literal

\* The position of flavorid f in a list (0 when absent).
PosOf(list, f) ==
  IF \E i \in 1..Len(list) : list[i].flavorid = f
  THEN CHOOSE i \in 1..Len(list) :
         /\ list[i].flavorid = f
         /\ \A j \in 1..Len(list) : list[j].flavorid = f => i <= j
  ELSE 0

\* The list the same call returns without a marker, and without a limit.
Unmarked ==
  FlavorGetAllDb(ret.context, FALSE, ret.filters, ret.sort_key, ret.sort_dir,
                 ret.limit, None)
Unlimited ==
  FlavorGetAllDb(ret.context, FALSE, ret.filters, ret.sort_key, ret.sort_dir,
                 None, ret.marker)

\* C1: the list returned by list_all never contains two records with the
\* same flavorid, whatever the stores hold and whatever the filters, sort
\* key, sort direction, limit and marker are.
C1_NoDuplicateFlavorid ==
  Listed => \A i, j \in 1..Len(ret.result) :
              i # j => ret.result[i].flavorid # ret.result[j].flavorid

\* C1's case: a flavorid live in both stores is listed.
C1_Witness ==
  /\ Listed
  /\ \E a \in LiveApi, n \in LiveNova :
       a.flavorid = n.flavorid /\ a.flavorid \in ResultIds

\* C2: primary store wins all conflicts: every listed record whose flavorid
\* is live in the primary store is the primary store's record, for any
\* filters, limit and marker.
C2_PrimaryWins ==
  (Listed /\ LiteralDir) => \A i \in 1..Len(ret.result) : \A a \in LiveApi :
              a.flavorid = ret.result[i].flavorid
                => ret.result[i] = DictWithExtraSpecs(api_specs, a)

\* C4: for a marker M that occurs in the list returned without marker, the
\* call with marker M returns exactly the records after M's position in it.
C4_MarkerSlicesUnmarked ==
  (ret.op = "get_all" /\ ret.marker # None /\ ret.limit = None
     /\ LiteralDir /\ PosOf(Unmarked.result, ret.marker[1]) > 0)
    => /\ ret.exc = None
       /\ ret.result = SubSeq(Unmarked.result,
                              PosOf(Unmarked.result, ret.marker[1]) + 1,
                              Len(Unmarked.result))

\* C5: list_all(marker=M) fails with MarkerNotFound exactly when M is live
\* in neither the primary nor the legacy store.
C5_MarkerNotFoundIffAbsent ==
  (ret.op = "get_all" /\ ret.marker # None)
    => (ret.exc = Some("MarkerNotFound")
          <=> \A r \in LiveApi \cup LiveNova : r.flavorid # ret.marker[1])

\* The filters of test_flavor_get_all as predicates on one record.
Satisfies(it, filters) ==
  /\ filters.min_memory_mb # None => it.memory_mb >= filters.min_memory_mb[1]
  /\ filters.min_root_gb # None => it.root_gb >= filters.min_root_gb[1]
  /\ filters.disabled # None => it.disabled = filters.disabled[1]
  /\ (filters.is_public # None /\ filters.is_public[1] # None)
       => it.is_public = filters.is_public[1][1]

\* The deduplicated union of both stores: the primary store's live flavors
\* and the legacy flavors whose flavorid is not live in the primary store.
DedupUnion ==
  {DictWithExtraSpecs(api_specs, a) : a \in LiveApi} \cup
  {DictWithExtraSpecs(nova_specs, n) :
     n \in {m \in LiveNova : \A a \in LiveApi : a.flavorid # m.flavorid}}

\* C6: filtering is conjunctive: an admin's list_all returns exactly the
\* flavors of the deduplicated union that satisfy every supplied filter.
C6_FiltersConjunctive ==
  (Listed /\ ret.context.is_admin /\ ret.marker = None /\ ret.limit = None)
    => {ret.result[i] : i \in 1..Len(ret.result)}
         = {d \in DedupUnion : Satisfies(d, ret.filters)}

\* C7: sort_dir 'asc' lists in non-decreasing order of the sort key, 'desc'
\* in non-increasing order, and by name descending strictly so.
C7_SortedByKey ==
  Listed => \A i \in 1..(Len(ret.result) - 1) :
    LET x == SortVal(ret.result[i], ret.sort_key)
        y == SortVal(ret.result[i + 1], ret.sort_key)
    IN /\ ret.sort_dir.str = "asc" => x <= y
       /\ ret.sort_dir.str = "desc" => x >= y
       /\ (ret.sort_dir.str = "desc" /\ ret.sort_key = "name") => x > y

\* C8: with a positive limit L the call returns exactly the first L records
\* of what it returns without limit.
C8_LimitIsPrefix ==
  (ret.op = "get_all" /\ ret.limit # None /\ LiteralDir)
    => /\ ret.exc = Unlimited.exc
       /\ ret.result = Slice(Unlimited.result, ret.limit)

\* C3: paging is complete and duplicate-free: the pages a client gets by
\* passing the last flavorid of each page as the next marker, up to the
\* first empty page, make up the unpaginated list, each record once and in
\* the same order.
C3_PagingComplete ==
  (pager.pc \in {"done", "failed", "overrun"}
     /\ (pager.sort_dir.str = "desc" \/ pager.sort_dir.is_literal))
    => /\ pager.pc = "done"
       /\ pager.seen = FlavorGetAllDb(AdminCtxt, FALSE, pager.filters,
                                      pager.sort_key, pager.sort_dir,
                                      None, None).result

\* The rows with flavorid f that a caller's lookup sees in a store.
Seen(flavors, projects, context, f) ==
  {r \in FlavorGetQueryDb(flavors, projects, context, None) : r.flavorid = f}
TheRow(rows) == CHOOSE r \in rows : TRUE
\* The step is a call of get_by_flavor_id.
GetStep == ret'.op = "get_by_flavor_id"
ApiSeen == Seen(api_flavors, api_projects, ret'.context, ret'.flavor_id)
NovaSeen == Seen(nova_flavors, nova_projects, ret'.context, ret'.flavor_id)

\* C9: read-through: get_by_flavor_id(K) returns the primary store's record
\* when K is live and visible there; otherwise it returns the legacy
\* record for every K live and visible in the legacy store, whatever else
\* the primary store contains; it fails with FlavorNotFound only when K is
\* found in neither store.
C9_ReadThrough ==
  [][GetStep =>
       /\ ApiSeen # {} =>
            /\ ret'.exc = None
            /\ ret'.result = Some(FromDbObject(
                 DictWithExtraSpecs(api_specs, TheRow(ApiSeen))))
       /\ (ApiSeen = {} /\ NovaSeen # {}) =>
            /\ ret'.exc = None
            /\ ret'.result = Some(FromDbObject(
                 DictWithExtraSpecs(nova_specs, TheRow(NovaSeen))))
       /\ ret'.exc = Some("FlavorNotFound") => (ApiSeen = {} /\ NovaSeen = {})
    ]_vars

\* The columns of a flavor row apart from its id.
Columns(r) ==
  [flavorid |-> r.flavorid, name |-> r.name, memory_mb |-> r.memory_mb,
   root_gb |-> r.root_gb, disabled |-> r.disabled, is_public |-> r.is_public,
   vcpu_weight |-> r.vcpu_weight, deleted |-> r.deleted]
GrantsOf(projects, r) ==
  {a.project_id : a \in {x \in projects : x.flavor_id = r.id /\ x.deleted = 0}}

\* C10: migrate-on-read: when get_by_flavor_id(K) misses in the primary
\* store and finds K in the legacy store, then on return the primary store
\* holds a flavor K with the legacy row's values on every column but id,
\* its extra specs, and exactly the legacy row's granted project ids.
\* Stated for the calls whose insert meets no live primary row with the
\* legacy row's flavorid or name.
C10_MigrateCopies ==
  [][(/\ GetStep /\ ApiSeen = {} /\ NovaSeen # {}
      /\ \A a \in api_flavors :
           a.deleted = 0 => /\ a.flavorid # ret'.flavor_id
                            /\ a.name # TheRow(NovaSeen).name) =>
       /\ ret'.exc = None
       /\ \E a \in api_flavors' :
            /\ a.flavorid = ret'.flavor_id
            /\ Columns(a) = Columns(TheRow(NovaSeen))
            /\ ExtraSpecsOf(api_specs', a)
                 = ExtraSpecsOf(nova_specs, TheRow(NovaSeen))
            /\ GrantsOf(api_projects', a)
                 = GrantsOf(nova_projects, TheRow(NovaSeen))
    ]_vars

\* The live primary rows with the flavorid of the call.
LiveK(flavors) == {a \in flavors : a.deleted = 0 /\ a.flavorid = ret'.flavor_id}

\* C11: migrate-on-read is idempotent for one caller: a get_by_flavor_id(K)
\* that finds K in the primary store changes nothing, and one that finds K
\* in the legacy store only leaves the primary store with exactly one live
\* row for K, which the caller's next call finds.
C11_MigrateIdempotent ==
  [][GetStep =>
       /\ ApiSeen # {} => UNCHANGED stores
       /\ (LiveK(api_flavors) = {} /\ NovaSeen # {}) =>
            /\ Cardinality(LiveK(api_flavors')) = 1
            /\ Seen(api_flavors', api_projects', ret'.context,
                    ret'.flavor_id) # {}
    ]_vars

\* Two callers of get_by_flavor_id(K) that both missed in the primary
\* store before either inserted, both returned.
Raced(c, d) ==
  /\ c # d
  /\ calls[c].pc = "done" /\ calls[d].pc = "done"
  /\ calls[c].op = "get_by_flavor_id" /\ calls[d].op = "get_by_flavor_id"
  /\ calls[c].missed /\ calls[d].missed
  /\ calls[c].flavor_id = calls[d].flavor_id
  /\ c \in calls[d].racing

\* C12: concurrent double migration: of two callers of get_by_flavor_id(K)
\* that both miss in the primary store before either inserts, exactly one
\* inserts and returns, the other's call raises FlavorIdExists, and the
\* primary store ends with exactly one live row for K.
C12_DoubleMigration ==
  \A c, d \in Callers :
    Raced(c, d) =>
      /\ \/ calls[c].exc = None /\ calls[d].exc = Some("FlavorIdExists")
         \/ calls[d].exc = None /\ calls[c].exc = Some("FlavorIdExists")
      /\ Cardinality({a \in api_flavors :
                        /\ a.deleted = 0
                        /\ a.flavorid = calls[c].flavor_id}) = 1

\* The step is a call of _flavor_create_db, and what its values collide with.
CreateStep == ret'.op = "create"
SameFlavorid == \E a \in api_flavors : /\ a.deleted = 0
                                       /\ a.flavorid = ret'.values.flavorid
SameName == \E a \in api_flavors : /\ a.deleted = 0
                                   /\ a.name = ret'.values.name
PrimaryUnchanged == UNCHANGED <<api_flavors, api_projects, api_specs>>

\* C13 as stated: a create whose flavorid is that of a live flavor fails
\* with FlavorIdExists, one with a fresh flavorid whose name is that of a
\* live flavor fails with FlavorExists, and neither adds a flavor row, an
\* extra spec or an access grant to the primary store.
C13_DuplicateFails ==
  [][CreateStep =>
       /\ SameFlavorid =>
            ret'.exc = Some("FlavorIdExists") /\ PrimaryUnchanged
       /\ (~SameFlavorid /\ SameName) =>
            ret'.exc = Some("FlavorExists") /\ PrimaryUnchanged
    ]_vars

\* C13 amended: a create whose flavorid is that of a live flavor and whose
\* name is fresh fails with FlavorIdExists, one with a fresh flavorid whose
\* name is that of a live flavor fails with FlavorExists, one that collides
\* on both fails with either of the two, and none of them adds anything to
\* the primary store.
C13_DuplicateFailsAmended ==
  [][CreateStep =>
       /\ (SameFlavorid /\ ~SameName) =>
            ret'.exc = Some("FlavorIdExists") /\ PrimaryUnchanged
       /\ (~SameFlavorid /\ SameName) =>
            ret'.exc = Some("FlavorExists") /\ PrimaryUnchanged
       /\ (SameFlavorid /\ SameName) =>
            /\ ret'.exc \in {Some("FlavorIdExists"), Some("FlavorExists")}
            /\ PrimaryUnchanged
    ]_vars

\* A create has failed on the name of a live flavor with another flavorid.
C13_Witness ==
  /\ ret.op = "create"
  /\ ret.exc = Some("FlavorExists")
  /\ \E a \in api_flavors : /\ a.deleted = 0
                            /\ a.name = ret.values.name
                            /\ a.flavorid # ret.values.flavorid

\* Two callers of Flavor.create that both passed the pre-checks and ran
\* their inserts, and the outcome of such a pair: one created its flavor
\* and the other's call raised one of excs.
Created(c, d) ==
  /\ c # d
  /\ calls[c].pc = "done" /\ calls[d].pc = "done"
  /\ calls[c].op = "create" /\ calls[d].op = "create"
  /\ calls[c].inserting /\ calls[d].inserting
OneCreated(c, d, excs) ==
  \/ calls[c].exc = None /\ calls[d].exc \in excs
  \/ calls[d].exc = None /\ calls[c].exc \in excs
SameKey(c, d, key) == calls[c].values[key] = calls[d].values[key]

\* No two live rows of the primary store share a flavorid or a name.
UniqueLive ==
  \A a, b \in api_flavors :
    (a # b /\ a.deleted = 0 /\ b.deleted = 0) =>
      a.flavorid # b.flavorid /\ a.name # b.name

CreatedNow == ret.op = "create" /\ ret.exc = None
\* The project is among those given to it.
Given(p) == \E i \in 1..Len(ret.projects) : ret.projects[i] = p

\* C15: after a successful create, the extra specs read back for the new
\* flavor are exactly those given, and its access list holds exactly one
\* grant for each distinct project given, also for a project given twice.
C15_CreateStoresSpecsAndGrants ==
  CreatedNow =>
    LET access == FlavorAccessGetByFlavorIdDb(AdminCtxt, ret.flavorid)
    IN /\ FlavorExtraSpecsGetDb(AdminCtxt, ret.flavorid)
            = ret.values.extra_specs
       /\ \A a \in access : Given(a.project_id)
       /\ \A p \in Projects :
            Given(p) => Cardinality({a \in access : a.project_id = p}) = 1

\* A flavor was created with extra specs and a project given twice.
C15_Witness ==
  /\ CreatedNow
  /\ ret.values.extra_specs # <<>>
  /\ \E i, j \in 1..Len(ret.projects) :
       i # j /\ ret.projects[i] = ret.projects[j]
  /\ Cardinality(FlavorAccessGetByFlavorIdDb(AdminCtxt, ret.flavorid)) = 2

\* The flavor the last call created, and the equality of a Flavor object
\* with it on the stored fields; a field of the object holds a value, a
\* nullable column a value or None.
TheCreated == ret.result[1]
EqualStored(flavor, db_flavor) ==
  /\ flavor.id = db_flavor.id
  /\ flavor.flavorid = db_flavor.flavorid
  /\ flavor.name = db_flavor.name
  /\ flavor.memory_mb = db_flavor.memory_mb
  /\ flavor.root_gb = db_flavor.root_gb
  /\ flavor.disabled = db_flavor.disabled
  /\ flavor.is_public = db_flavor.is_public
  /\ Some(flavor.vcpu_weight) = db_flavor.vcpu_weight
  /\ flavor.extra_specs = db_flavor.extra_specs

\* C16: create/get round trip: get_by_flavor_id, get_by_id and get_by_name
\* of a flavor just created return a record equal to the created one on
\* every stored field, a null vcpu_weight included.
C16_RoundTrip ==
  CreatedNow =>
    /\ \A out \in GetByFlavorIdOutcomes(AdminCtxt, ret.flavorid, None) :
         out.exc = None /\ EqualStored(out.result[1], TheCreated)
    /\ LET out == GetById(AdminCtxt, TheCreated.id)
       IN out.exc = None /\ EqualStored(out.result[1], TheCreated)
    /\ LET out == GetByName(AdminCtxt, TheCreated.name)
       IN out.exc = None /\ EqualStored(out.result[1], TheCreated)

\* The step is a call of _flavor_destroy_db that returned, and the flavors
\* it destroyed: the live rows of that name, of the primary store or else
\* of the legacy store.
DestroyStep == ret'.op = "destroy" /\ ret'.exc = None
Named(flavors) == {r \in flavors : r.deleted = 0 /\ r.name = ret'.name}
Destroyed == IF Named(api_flavors) # {} THEN Named(api_flavors)
             ELSE Named(nova_flavors)

\* In the state reached, the flavor with that flavorid and name is live in
\* neither store, no list call and no getter returns it, and its extra
\* specs and its access list are empty.
Gone(flavorid, name) ==
  /\ \A r \in api_flavors \cup nova_flavors :
       r.deleted = 0 => r.flavorid # flavorid /\ r.name # name
  /\ LET out == FlavorGetAllDb(AdminCtxt, FALSE, NoFilters, "flavorid",
                               [str |-> "asc", is_literal |-> TRUE],
                               None, None)
     IN /\ out.exc = None
        /\ \A i \in 1..Len(out.result) : out.result[i].flavorid # flavorid
  /\ \A out \in GetByFlavorIdOutcomes(AdminCtxt, flavorid, None) :
       out.exc = Some("FlavorNotFound")
  /\ GetByName(AdminCtxt, name).exc = Some("FlavorNotFoundByName")
  /\ FlavorExtraSpecsGetDb(AdminCtxt, flavorid) = <<>>
  /\ FlavorAccessGetByFlavorIdDb(AdminCtxt, flavorid) = {}

\* C17: after destroy(name) succeeds the flavor is live in neither store,
\* no list call (deleted rows hidden) and no getter returns it, and its
\* extra specs and its access list read back empty.
C17_DestroyRemoves ==
  [][DestroyStep => \A d \in Destroyed : Gone(d.flavorid, d.name)']_vars

\* The step is a call of _flavor_destroy_db; the flavors of another name
\* in a table, and the rows that belong to them in a table of extra specs
\* or of access rows.
DestroyCall == ret'.op = "destroy"
Others(flavors) == {r \in flavors : r.name # ret'.name}
RowsOf(table, flavors) ==
  {x \in table : \E r \in flavors : x.flavor_id = r.id}

\* C18: destroy(name) leaves every flavor of another name, its extra specs
\* and its access grants as they were, in both stores.
C18_DestroyFrame ==
  [][DestroyCall =>
       /\ Others(api_flavors') = Others(api_flavors)
       /\ RowsOf(api_specs', Others(api_flavors))
            = RowsOf(api_specs, Others(api_flavors))
       /\ RowsOf(api_projects', Others(api_flavors))
            = RowsOf(api_projects, Others(api_flavors))
       /\ Others(nova_flavors') = Others(nova_flavors)
       /\ RowsOf(nova_specs', Others(nova_flavors))
            = RowsOf(nova_specs, Others(nova_flavors))
       /\ RowsOf(nova_projects', Others(nova_flavors))
            = RowsOf(nova_projects, Others(nova_flavors))
    ]_vars

\* A flavor was destroyed while a flavor of another name, with extra specs
\* and access grants, was live in the primary store.
C18_Witness ==
  /\ ret.op = "destroy" /\ ret.exc = None
  /\ \E d \in api_flavors : d.deleted # 0 /\ d.name = ret.name
  /\ \E r \in api_flavors :
       /\ r.deleted = 0 /\ r.name # ret.name
       /\ \E e \in api_specs : e.flavor_id = r.id /\ e.deleted = 0
       /\ \E a \in api_projects : a.flavor_id = r.id /\ a.deleted = 0

\* C19: destroy(name) fails with FlavorNotFoundByName and changes nothing
\* when no live flavor of that name is in the primary or the legacy store,
\* and succeeds when one is live in the primary store, also when the
\* legacy store has none.
C19_DestroyNotFound ==
  [][DestroyCall =>
       /\ (Named(api_flavors) = {} /\ Named(nova_flavors) = {}) =>
            ret'.exc = Some("FlavorNotFoundByName") /\ UNCHANGED stores
       /\ Named(api_flavors) # {} => ret'.exc = None
    ]_vars

\* A flavor of the primary store was destroyed while the legacy store held
\* flavors, none of that name.
C19_Witness ==
  /\ ret.op = "destroy" /\ ret.exc = None
  /\ \E d \in api_flavors : d.deleted # 0 /\ d.name = ret.name
  /\ nova_flavors # {}
  /\ \A n \in nova_flavors : n.name # ret.name

\* The step is a call of _flavor_extra_specs_update_or_create_db that
\* returned; the live extra spec rows of a flavor id in a table.
UpsertStep == ret'.op = "extra_specs_update_or_create" /\ ret'.exc = None
LiveSpecs(table, id) == {e \in table : e.deleted = 0 /\ e.flavor_id = id}

\* C20: after a successful upsert(K, pairs) the extra specs read back for K
\* are the previous ones overridden by pairs, each key has exactly one live
\* row, and the extra spec rows of every other flavor are as they were.
C20_UpsertOverrides ==
  [][UpsertStep =>
       \A K \in {ret'.flavor_id}, pairs \in {ret'.specs},
          id \in FlavorGetIdFromFlavorQueryDb(AdminCtxt, ret'.flavor_id) :
         LET before == FlavorExtraSpecsGetDb(AdminCtxt, K)
             after == FlavorExtraSpecsGetDb(AdminCtxt, K)'
         IN /\ DOMAIN after = DOMAIN before \cup DOMAIN pairs
            /\ \A k \in DOMAIN after :
                 after[k] = IF k \in DOMAIN pairs THEN pairs[k] ELSE before[k]
            /\ \A k \in DOMAIN after :
                 Cardinality({e \in LiveSpecs(api_specs', id) : e.key = k}) = 1
            /\ {e \in api_specs' : e.flavor_id # id}
                 = {e \in api_specs : e.flavor_id # id}
    ]_vars

\* An upsert has overridden one key of a flavor and added another, while
\* another flavor had extra specs.
C20_Witness ==
  /\ ret.op = "extra_specs_update_or_create" /\ ret.exc = None
  /\ DOMAIN ret.specs = {"k1", "k2"}
  /\ \E r \in api_flavors :
       /\ r.deleted = 0 /\ r.flavorid = ret.flavor_id
       /\ \E e \in LiveSpecs(api_specs, r.id) :
            e.key = "k1" /\ e.value = "v2"
       /\ \E o \in api_flavors :
            /\ o.id # r.id
            /\ \E e \in api_specs : e.flavor_id = o.id /\ e.key = "k1"

\* The step is a _flavor_create_db of a flavorid and name that a destroyed
\* flavor had and no live flavor has; the destroyed rows in question.
Reborn == {d \in api_flavors : /\ d.deleted # 0
                               /\ d.flavorid = ret'.values.flavorid
                               /\ d.name = ret'.values.name}
RecreateStep == CreateStep /\ Reborn # {} /\ ~SameFlavorid /\ ~SameName

\* C28: creating a flavor with the flavorid and name of a destroyed flavor
\* succeeds, the new row's id differs from the destroyed one's, and the
\* soft-deleted row stays in the table next to the new live row.
C28_RecreateAfterDestroy ==
  [][RecreateStep =>
       /\ ret'.exc = None
       /\ \A d \in api_flavors : ret'.result[1].id # d.id
       /\ api_flavors \subseteq api_flavors'
       /\ \E a \in api_flavors' : /\ a.id = ret'.result[1].id
                                  /\ a.deleted = 0
                                  /\ a.flavorid = ret'.values.flavorid
                                  /\ a.name = ret'.values.name
    ]_vars

\* A flavor was created next to the soft-deleted row of a flavor with its
\* flavorid and name.
C28_Witness ==
  /\ CreatedNow
  /\ \E d \in api_flavors : /\ d.deleted # 0
                            /\ d.flavorid = ret.flavorid
                            /\ d.name = ret.values.name
                            /\ d.id # TheCreated.id

\* The rows of the primary flavors table with flavorid K, and the live ones.
Bearing(K) == {r \in api_flavors : r.flavorid = K}
LiveBearing(K) == {r \in Bearing(K) : r.deleted = 0}

\* C29: _flavor_get_by_flavor_id_db with read_deleted='yes' returns the live
\* row of the flavorid when there is one (the flavor was recreated), and
\* otherwise the soft-deleted row of the least id; it raises FlavorNotFound
\* when no row has the flavorid.
C29_ReadDeletedYes ==
  \A K \in CrudFlavorIds :
    LET found == FlavorGetByFlavorIdDb(AdminCtxt, K, Some("yes"))
    IN /\ Bearing(K) = {} => found.exc = Some("FlavorNotFound")
       /\ LiveBearing(K) # {} =>
            /\ found.exc = None
            /\ \E l \in LiveBearing(K) : found.result[1].id = l.id
       /\ Bearing(K) # {} /\ LiveBearing(K) = {} =>
            /\ found.exc = None
            /\ \E d \in Bearing(K) : /\ found.result[1].id = d.id
                                     /\ \A o \in Bearing(K) : d.id <= o.id

\* A flavorid has a soft-deleted row and a later live row, and the lookup
\* with read_deleted='yes' returns the live one.
C29_Witness ==
  \E K \in CrudFlavorIds : \E d \in Bearing(K), l \in LiveBearing(K) :
    /\ d.deleted # 0
    /\ d.id < l.id
    /\ FlavorGetByFlavorIdDb(AdminCtxt, K, Some("yes")).result[1].id = l.id

\* The flavorids destroyed and created again in the primary store.
Recreated == {K \in CrudFlavorIds :
                \E d \in Bearing(K) : d.deleted # 0 /\ LiveBearing(K) # {}}

\* C30: after a flavor was destroyed and recreated with the same flavorid,
\* Flavor.get_by_flavor_id with read_deleted='yes' returns the original,
\* soft-deleted record.
C30_ReturnsOriginal ==
  \A K \in Recreated :
    \A o \in GetByFlavorIdOutcomes(AdminCtxt, K, Some("yes")) :
      /\ o.exc = None
      /\ \E d \in Bearing(K) : d.deleted # 0 /\ o.result[1].id = d.id

\* C30 (amended): after a flavor was destroyed and recreated with the same
\* flavorid, Flavor.get_by_flavor_id with read_deleted='yes' returns the
\* recreated, live record and writes nothing.
C30_ReturnsRecreated ==
  \A K \in Recreated :
    \A o \in GetByFlavorIdOutcomes(AdminCtxt, K, Some("yes")) :
      /\ o.exc = None
      /\ \E l \in LiveBearing(K) :
           /\ o.result[1].id = l.id
           /\ o.result[1].name = l.name
           /\ \A d \in Bearing(K) \ {l} : d.id < l.id
      /\ o.flavors = api_flavors

\* A flavorid was destroyed and recreated under another name, and
\* Flavor.get_by_flavor_id with read_deleted='yes' has one outcome.
C30_Witness ==
  \E K \in Recreated :
    /\ Cardinality(GetByFlavorIdOutcomes(AdminCtxt, K, Some("yes"))) = 1
    /\ \E d \in Bearing(K), l \in LiveBearing(K) : d.name # l.name

\* The live primary flavor rows with flavorid K, and the id of the one.
LiveBy(K) == {r \in api_flavors : r.deleted = 0 /\ r.flavorid = K}
IdOf(K) == (CHOOSE r \in LiveBy(K) : TRUE).id

\* The step is a call of the upsert, of the access add or of the access
\* remove.
KeyedStep == /\ ret = NoCall
             /\ ret'.op \in {"extra_specs_update_or_create", "access_add",
                             "access_remove"}

\* C23: when no live primary flavor has the flavorid,
\* _flavor_extra_specs_update_or_create_db (with pairs or with none),
\* _flavor_access_add_db and _flavor_access_remove_db raise FlavorNotFound
\* and leave the stores unchanged.
C23_NotFoundKeepsStore ==
  [][(KeyedStep /\ LiveBy(ret'.flavor_id) = {}) =>
       /\ ret'.exc = Some("FlavorNotFound")
       /\ UNCHANGED stores
    ]_vars

\* An upsert of no pairs on a destroyed flavor, whose soft-deleted row has
\* a soft-deleted access row, raised FlavorNotFound.
C23_Witness ==
  /\ ret.op = "extra_specs_update_or_create"
  /\ ret.specs = <<>>
  /\ ret.exc = Some("FlavorNotFound")
  /\ \E r \in api_flavors : /\ r.flavorid = ret.flavor_id
                            /\ r.deleted # 0
                            /\ \E a \in api_projects : a.flavor_id = r.id

\* The live access rows of flavor id i for project p.
LiveGrants(i, p) == {a \in api_projects : /\ a.deleted = 0
                                          /\ a.flavor_id = i
                                          /\ a.project_id = p}

\* The step is a call of the access add, or of the access remove, on a
\* live flavor.
AddStep == /\ ret = NoCall /\ ret'.op = "access_add"
           /\ LiveBy(ret'.flavor_id) # {}
RemoveStep == /\ ret = NoCall /\ ret'.op = "access_remove"
              /\ LiveBy(ret'.flavor_id) # {}

\* C25: on a live flavor _flavor_access_add_db adds one live row (the
\* flavor's id, the project) when the flavor has no live row for the
\* project, also when it has soft-deleted ones; when it has a live row it
\* raises FlavorAccessExists and leaves the access rows unchanged.
C25_AccessAdd ==
  [][AddStep =>
       LET i == IdOf(ret'.flavor_id)
           p == ret'.project_id
       IN /\ LiveGrants(i, p) = {} =>
               /\ ret'.exc = None
               /\ \E a \in api_projects' \ api_projects :
                    /\ api_projects' = api_projects \cup {a}
                    /\ a.flavor_id = i /\ a.project_id = p /\ a.deleted = 0
                    /\ \A o \in api_projects : o.id # a.id
          /\ LiveGrants(i, p) # {} =>
               /\ ret'.exc = Some("FlavorAccessExists")
               /\ api_projects' = api_projects
          /\ UNCHANGED <<api_flavors, api_specs>>
    ]_vars

\* An access add succeeded for a flavor and project whose earlier access
\* row is soft-deleted and whose flavor is live.
C25_Witness ==
  /\ ret.op = "access_add" /\ ret.exc = None
  /\ \E a, d \in api_projects :
       /\ a = ret.result[1] /\ a.deleted = 0
       /\ d.deleted # 0 /\ d.flavor_id = a.flavor_id
       /\ d.project_id = a.project_id
       /\ \E r \in api_flavors : r.id = a.flavor_id /\ r.deleted = 0

\* C26: on a live flavor _flavor_access_remove_db soft-deletes the live row
\* of the flavor and project and leaves every other access row unchanged;
\* when the flavor has no live row for the project it raises
\* FlavorAccessNotFound and changes nothing.
C26_AccessRemove ==
  [][RemoveStep =>
       LET i == IdOf(ret'.flavor_id)
           gone == LiveGrants(i, ret'.project_id)
       IN /\ gone # {} =>
               /\ ret'.exc = None
               /\ \A a \in api_projects \ gone : a \in api_projects'
               /\ \A a \in gone : /\ a \notin api_projects'
                                  /\ \E d \in api_projects' :
                                       /\ d.id = a.id /\ d.deleted # 0
                                       /\ d.flavor_id = a.flavor_id
                                       /\ d.project_id = a.project_id
               /\ Cardinality(api_projects') = Cardinality(api_projects)
          /\ gone = {} =>
               /\ ret'.exc = Some("FlavorAccessNotFound")
               /\ api_projects' = api_projects
          /\ UNCHANGED <<api_flavors, api_specs>>
    ]_vars

\* An access remove succeeded, and the flavor keeps a live row for another
\* project and another flavor keeps its live row for the same project.
C26_Witness ==
  /\ ret.op = "access_remove" /\ ret.exc = None
  /\ \E d, a, b \in api_projects :
       /\ d.deleted # 0 /\ d.project_id = ret.project_id
       /\ d.flavor_id \in {r.id : r \in LiveBy(ret.flavor_id)}
       /\ a.deleted = 0 /\ a.flavor_id = d.flavor_id
       /\ a.project_id # d.project_id
       /\ b.deleted = 0 /\ b.flavor_id # d.flavor_id
       /\ b.project_id = d.project_id

\* The flavor row is public or has a live access row for project P.
Granted(r, P) == r.is_public \/ LiveGrants(r.id, P) # {}

\* The context obtains the live primary flavor row through Flavor.get_by_id,
\* Flavor.get_by_name, Flavor.get_by_flavor_id, the list with these filters.
ObtainedById(context, r) ==
  LET got == GetById(context, r.id)
  IN got.exc = None /\ got.result[1].id = r.id
ObtainedByName(context, r) ==
  LET got == GetByName(context, r.name)
  IN got.exc = None /\ got.result[1].id = r.id
ObtainedByFlavorId(context, r) ==
  \E got \in GetByFlavorIdOutcomes(context, r.flavorid, None) :
    got.exc = None /\ got.result[1].id = r.id
ListedIds(context, filters) ==
  LET got == FlavorGetAllDb(context, FALSE, filters, "flavorid",
                            [str |-> "asc", is_literal |-> TRUE], None, None)
  IN IF got.exc # None THEN {}
     ELSE {got.result[i].id : i \in 1..Len(got.result)}

\* The filters on is_public a list call may carry.
PublicFilters == {[NoFilters EXCEPT !.is_public = Some(Some(b))] :
                    b \in BOOLEAN}

\* C27: a caller that is not admin, of project P, obtains a live primary
\* flavor through get_by_id, get_by_name, get_by_flavor_id and the
\* unfiltered list exactly when the flavor is public or has a live access
\* row for P, and through a filtered list only then; an admin caller
\* obtains every live primary flavor.
C27_Visibility ==
  /\ \A P \in Projects :
       LET granted == {r.id : r \in {x \in LiveApi : Granted(x, P)}}
       IN /\ \A r \in LiveApi :
               /\ ObtainedById(UserCtxt(P), r) <=> Granted(r, P)
               /\ ObtainedByName(UserCtxt(P), r) <=> Granted(r, P)
               /\ ObtainedByFlavorId(UserCtxt(P), r) <=> Granted(r, P)
          /\ ListedIds(UserCtxt(P), NoFilters) = granted
          /\ \A f \in PublicFilters : ListedIds(UserCtxt(P), f) \subseteq granted
  /\ \A r \in LiveApi :
       /\ ObtainedById(AdminCtxt, r)
       /\ ObtainedByName(AdminCtxt, r)
       /\ ObtainedByFlavorId(AdminCtxt, r)
  /\ ListedIds(AdminCtxt, NoFilters) = {r.id : r \in LiveApi}

\* A flavor that is not public has a live access row for p1 and a removed
\* one for p2: the caller of p1 obtains it through the four getters, the
\* caller of p2 through none.
C27_Witness ==
  \E r \in LiveApi :
    /\ ~r.is_public
    /\ LiveGrants(r.id, "p1") # {} /\ LiveGrants(r.id, "p2") = {}
    /\ \E a \in api_projects : a.flavor_id = r.id /\ a.project_id = "p2"
    /\ ObtainedById(UserCtxt("p1"), r) /\ ObtainedByName(UserCtxt("p1"), r)
    /\ ObtainedByFlavorId(UserCtxt("p1"), r)
    /\ r.id \in ListedIds(UserCtxt("p1"), NoFilters)
    /\ ~ObtainedById(UserCtxt("p2"), r) /\ ~ObtainedByName(UserCtxt("p2"), r)
    /\ ~ObtainedByFlavorId(UserCtxt("p2"), r)
    /\ r.id \notin ListedIds(UserCtxt("p2"), NoFilters)

\* Caller c's step ends a pass of its upsert with DBDuplicateEntry.
HitDuplicate(c) == /\ calls[c].pc = "write"
                   /\ calls'[c].dups = calls[c].dups + 1

\* Caller c's step ends its upsert.
UpsertEnds(c) == /\ calls[c].pc # "done"
                 /\ calls'[c].pc = "done" /\ calls'[c].op = "upsert"

\* C21: a pass of the upsert that meets the duplicate-key error leaves the
\* extra specs as they were, and a call of which every pass met it has made
\* exactly max_retries passes and raises FlavorExtraSpecUpdateCreateFailed.
C21_RetriesExhausted ==
  [][\A c \in Callers :
       /\ HitDuplicate(c) => api_specs' = api_specs
       /\ (UpsertEnds(c) /\ calls'[c].dups = calls'[c].attempts) =>
            /\ calls'[c].attempts = calls'[c].max_retries
            /\ calls'[c].exc = Some("FlavorExtraSpecUpdateCreateFailed")
            /\ api_specs' = api_specs
    ]_vars

\* An upsert with max_retries = MaxRetries met the duplicate-key error in
\* every pass and raised FlavorExtraSpecUpdateCreateFailed.
C21_Witness ==
  \E c \in Callers :
    /\ calls[c].pc = "done" /\ calls[c].op = "upsert"
    /\ calls[c].max_retries = MaxRetries
    /\ calls[c].attempts = MaxRetries /\ calls[c].dups = MaxRetries
    /\ calls[c].exc = Some("FlavorExtraSpecUpdateCreateFailed")

\* The two callers' upserts of a live flavor, with max_retries >= 2, are
\* over.
BothUpserted ==
  /\ \A c \in Callers : /\ calls[c].pc = "done" /\ calls[c].op = "upsert"
                        /\ calls[c].max_retries >= 2
  /\ calls["c1"].arg = calls["c2"].arg
  /\ LiveBy(calls["c1"].arg) # {}

\* C22: when two callers upsert the same key of the same flavor, absent
\* before, with max_retries >= 2, both calls succeed under every
\* interleaving, and the flavor has one live row for the key, with the
\* value of one of the callers.
C22_ConcurrentUpsert ==
  BothUpserted =>
    /\ \A c \in Callers : calls[c].exc = None
    /\ \A k \in DOMAIN calls["c1"].specs \cap DOMAIN calls["c2"].specs :
         \E e \in api_specs :
           /\ e.deleted = 0 /\ e.key = k
           /\ e.flavor_id = IdOf(calls["c1"].arg)
           /\ e.value \in {calls[c].specs[k] : c \in Callers}
           /\ \A o \in api_specs :
                (o.deleted = 0 /\ o.key = k /\ o.flavor_id = e.flavor_id)
                  => o = e

\* The step is a call of _flavor_extra_specs_delete_db; the live rows of the
\* key of the live flavor with the flavorid.
DeleteStep == ret = NoCall /\ ret'.op = "extra_specs_delete"
LiveSpecRows(K, key) ==
  {e \in api_specs : /\ e.deleted = 0 /\ e.key = key
                     /\ \E r \in LiveBy(K) : e.flavor_id = r.id}

\* C24: _flavor_extra_specs_delete_db soft-deletes the one live row of the
\* key of the flavor and leaves every other row unchanged; when there is no
\* such row it raises FlavorExtraSpecsNotFound and leaves the store
\* unchanged.
C24_DeleteSpec ==
  [][DeleteStep =>
       LET gone == LiveSpecRows(ret'.flavor_id, ret'.key)
       IN /\ gone # {} =>
               /\ ret'.exc = None
               /\ Cardinality(gone) = 1
               /\ api_specs' = (api_specs \ gone) \cup
                    {[e EXCEPT !.deleted = e.id] : e \in gone}
               /\ \A e \in api_specs' : e.deleted = 0 => e \in api_specs
          /\ gone = {} =>
               /\ ret'.exc = Some("FlavorExtraSpecsNotFound")
               /\ api_specs' = api_specs
          /\ UNCHANGED <<api_flavors, api_projects>>
    ]_vars

\* A delete succeeded, and the flavor keeps its live row of another key.
C24_Witness ==
  /\ ret.op = "extra_specs_delete" /\ ret.exc = None
  /\ \E d, e \in api_specs :
       /\ d.deleted # 0 /\ d.key = ret.key
       /\ d.flavor_id \in {r.id : r \in LiveBy(ret.flavor_id)}
       /\ e.deleted = 0 /\ e.flavor_id = d.flavor_id /\ e.key # d.key

\* The calls that read and, by their contract, write nothing.
ReadOps == {"get_all", "get_by_id", "get_by_name", "extra_specs_get",
            "access_get"}

\* C39: the list, Flavor.get_by_id, Flavor.get_by_name, the extra specs get
\* and the access get leave both stores unchanged; Flavor.get_by_flavor_id
\* leaves the legacy store unchanged and changes the primary store only
\* when no live primary flavor has the flavorid.
C39_ReadsDoNotWrite ==
  [][/\ (ret = NoCall /\ ret'.op \in ReadOps) => UNCHANGED stores
     /\ (ret = NoCall /\ ret'.op = "get_by_flavor_id") =>
          /\ UNCHANGED <<nova_flavors, nova_projects, nova_specs>>
          /\ LiveBy(ret'.flavor_id) # {} =>
               UNCHANGED <<api_flavors, api_projects, api_specs>>
    ]_vars

\* Flavor.get_by_flavor_id returned a flavor it has copied into the primary
\* store with its access rows, and the legacy store still holds the flavor
\* and the access rows.
C39_Witness ==
  /\ ret.op = "get_by_flavor_id" /\ ret.exc = None
  /\ \E a \in LiveApi, n \in LiveNova :
       /\ a.flavorid = ret.flavor_id /\ n.flavorid = ret.flavor_id
       /\ n.id = ret.result[1].id
       /\ \E g \in api_projects, h \in nova_projects :
            /\ g.flavor_id = a.id /\ g.project_id = ObjRepr(PyRow(h))
            /\ h.flavor_id = n.id /\ h.deleted = 0

\* C36: for a record r returned by Flavor.get_by_flavor_id(K), also by the
\* call that migrates K, Flavor.get_by_id(r.id) by the same caller on the
\* stores as the call left them returns a record whose flavorid is K.
C36_GettersConsistent ==
  (ret.op = "get_by_flavor_id" /\ ret.exc = None) =>
    LET got == GetById(ret.context, ret.result[1].id)
    IN got.exc = None /\ got.result[1].flavorid = ret.flavor_id

\* The context obtains a record with flavorid K through Flavor.get_by_id,
\* Flavor.get_by_name, Flavor.get_by_flavor_id or the list.
ObtainsFlavorid(context, K) ==
  \/ \E r \in api_flavors \cup nova_flavors :
       \/ LET got == GetById(context, r.id)
          IN got.exc = None /\ got.result[1].flavorid = K
       \/ LET got == GetByName(context, r.name)
          IN got.exc = None /\ got.result[1].flavorid = K
  \/ \E got \in GetByFlavorIdOutcomes(context, K, None) : got.exc = None
  \/ LET got == FlavorGetAllDb(context, FALSE, NoFilters, "flavorid",
                               [str |-> "asc", is_literal |-> TRUE],
                               None, None)
     IN got.exc = None
          /\ \E i \in 1..Len(got.result) : got.result[i].flavorid = K

\* C34: after _flavor_access_remove_db(K, P) succeeded on a flavor K that
\* is not public, the caller of project P obtains K through no getter and
\* through no list call, also when the legacy store holds a copy of K with
\* an access row for P.
C34_RevocationEffective ==
  (/\ ret.op = "access_remove" /\ ret.exc = None
   /\ \E a \in LiveBy(ret.flavor_id) : ~a.is_public)
    => ~ObtainsFlavorid(UserCtxt(ret.project_id), ret.flavor_id)

\* C35: every pass of an upsert, also a pass after DBDuplicateEntry, works
\* on the flavor whose flavorid the caller passed: the id a pass is about to
\* write under is that flavor's id, every row written belongs to a flavor
\* some caller named, and no later pass ends the call with FlavorNotFound
\* while the flavor is live.
C35_RetryResolvesSameFlavor ==
  /\ \A c \in Callers :
       calls[c].pc \in {"write", "retry", "done"} =>
         /\ calls[c].pc = "write" =>
              \E r \in LiveBy(calls[c].arg) : r.id = calls[c].flavor_id.n
         /\ (calls[c].pc = "done" /\ calls[c].attempts > 1
               /\ LiveBy(calls[c].arg) # {}) =>
              calls[c].exc # Some("FlavorNotFound")
  /\ \A e \in api_specs :
       \E c \in Callers : /\ calls[c].pc \in {"write", "retry", "done"}
                          /\ \E r \in LiveBy(calls[c].arg) : r.id = e.flavor_id

\* The flavor rows of the primary store that a row of a child table refers
\* to.
OwnersOf(x) == {r \in api_flavors : r.id = x.flavor_id}

\* C33: in every state, also when _flavor_destroy_db runs between the steps
\* of a concurrent _flavor_access_add_db or extra specs upsert on the same
\* flavor, no live access row and no live extra spec row refers to a
\* soft-deleted flavor.
C33_CascadeUnderConcurrency ==
  \A x \in api_projects \cup api_specs :
    x.deleted = 0 => \A r \in OwnersOf(x) : r.deleted = 0

\* A live flavor of either store has the flavorid.
FlavorLives(K) ==
  \E r \in api_flavors \cup nova_flavors : r.deleted = 0 /\ r.flavorid = K

\* C37: add_access and save of an object that Flavor.get_by_id,
\* get_by_name or get_by_flavor_id returned do not raise FlavorNotFound
\* while the flavor is live, in whichever store it is.
C37_GotObjectsMutable ==
  \A c \in Callers :
    (/\ calls[c].pc = "held" /\ calls[c].method \in {"add_access", "save"}
     /\ FlavorLives(calls[c].obj.flavorid))
      => calls[c].exc # Some("FlavorNotFound")

\* Caller c's step is a call of the method of the object it holds; the
\* call raises ObjectActionError and leaves the object and both stores as
\* they were.
MethodStep(c, method) ==
  /\ calls[c].pc = "held" /\ calls'[c].method = method
  /\ \/ calls[c].method # method \/ calls'[c].exc # calls[c].exc
     \/ calls'[c].pc # "held" \/ calls'[c].before # calls[c].before
RejectedStep(c) ==
  /\ calls'[c].pc = "held" /\ calls'[c].exc = Some("ObjectActionError")
  /\ calls'[c].obj = calls[c].obj
  /\ stores' = stores

\* C31: save() of an object with a changed field other than extra_specs
\* and projects, add_access() and remove_access() of an object whose
\* projects have changed, and create() of an object whose id is set raise
\* ObjectActionError and leave both stores unchanged.
C31_RejectsInvalidMutations ==
  [][\A c \in Callers :
       /\ (/\ MethodStep(c, "save")
           /\ ObjWhatChanged(calls[c].obj) \ {"extra_specs", "projects"} # {})
            => RejectedStep(c)
       /\ (/\ MethodStep(c, "add_access") \/ MethodStep(c, "remove_access")
           /\ "projects" \in ObjWhatChanged(calls[c].obj))
            => RejectedStep(c)
       /\ (MethodStep(c, "create") /\ "id" \notin calls[c].obj.unset)
            => RejectedStep(c)
    ]_vars

\* add_access of an object whose projects were assigned and not saved has
\* raised ObjectActionError.
C31_Witness ==
  \E c \in Callers :
    /\ calls[c].pc = "held" /\ calls[c].method = "add_access"
    /\ calls[c].exc = Some("ObjectActionError")
    /\ "projects" \in calls[c].obj.changed

\* The projects with a live access row of the live primary flavor with the
\* flavorid.
GrantedProjects(K) ==
  {a.project_id : a \in {x \in api_projects :
                           /\ x.deleted = 0
                           /\ \E r \in LiveBy(K) : x.flavor_id = r.id}}

\* Caller c's save() of an object of a primary flavor has returned.
Saved(c) ==
  /\ calls[c].pc = "held" /\ calls[c].method = "save"
  /\ calls[c].exc = None
  /\ LiveBy(calls[c].obj.flavorid) # {}

\* C32: after save() of an object of a primary flavor has returned, with no
\* other writer since the object was loaded, the flavor's live extra specs
\* are the object's extra_specs, the projects with a live access row are
\* those of the object's projects, and the object's extra_specs and
\* projects do not differ from the originals it compares them with, so
\* that it reports no change of their values.
C32_DiffBasedSave ==
  \A c \in Callers :
    Saved(c) =>
      LET o == calls[c].obj
      IN /\ FlavorExtraSpecsGetDb(AdminCtxt, o.flavorid) = o.extra_specs
         /\ o.extra_specs = o.orig_extra_specs
         /\ "projects" \notin o.unset =>
              /\ GrantedProjects(o.flavorid) = SetOf(o.projects)
              /\ o.projects = o.orig_projects

\* C38: when save() has raised an exception, the extra specs and the access
\* rows of the primary store are those of the start of that save().
C38_SaveAllOrNothing ==
  \A c \in Callers :
    (/\ calls[c].pc = "held" /\ calls[c].method = "save"
     /\ calls[c].exc # None /\ calls[c].before # None)
      => /\ api_specs = calls[c].before[1].specs
         /\ api_projects = calls[c].before[1].projects

====
